---- MODULE Spec2Model ----
(***************************************************************************)
(* Model of the resilient conversion pipeline of crewai-pandoc             *)
(* (app/main.py, app/enhanced_main.py): content-addressed job cache,       *)
(* the ordered strategy chain of convert_one, and the batch scheduler.     *)
(*                                                                         *)
(* Abstractions:                                                           *)
(*  - SHA-256 is an injective function of the bytes hashed; a digest is    *)
(*    the record [kind, v] where kind tells the three textual forms the    *)
(*    code produces ("sha256:<hex>", "sha256:error-<epoch>", and the       *)
(*    literal "sha256:0"*8) apart.                                         *)
(*  - File contents are small integers; Unreadable is a file whose open()  *)
(*    raises.                                                              *)
(*  - One source path is converted by convert_one; its artifact and log   *)
(*    paths are named by the epoch second and the extension.               *)
(*  - The strategies of one call run one after the other, each renderer    *)
(*    process to its end, so the chain is one step; files and the clock    *)
(*    change between calls and between the preflight and the chain.        *)
(*  - Of AgentMetrics the four file counters, active_jobs and queue_depth  *)
(*    are kept.                                                            *)
(*  - In the batch model a worker's convert_one call is its outcome: one   *)
(*    of the four statuses or an escaping exception.                       *)
(***************************************************************************)
EXTENDS Integers, Sequences, FiniteSets, TLC

\* ---- bounds ------------------------------------------------------------
\* calls of convert_one in a run
MaxJobs == 2
\* external events in a run: a second passing, a file changed or deleted
MaxEvents == 2
\* markdown files found by one batch cycle
MaxFiles == 5
\* batch cycles of one watch
MaxCycles == 2
\* max_attempts handed to retry_with_backoff
MaxRetry == 3
\* pieces of text a template file is made of
MaxTokens == 5
\* updates of the metrics after the aggregator was built
MaxUpdates == 3
\* worker threads that update the metrics at the same time
MaxThreads == 2
\* updates one thread makes
MaxCalls == 2

\* ---- program constants -----------------------------------------------------
PDF_ENGINES == <<"xelatex", "lualatex", "pdflatex">>
MinFreeMb == 100
MaxWorkers == 4

Epochs == 0..MaxEvents
\* two distinct byte strings
Contents == {1, 2}
Unreadable == 0
NoFile == -1

VARIABLES
    clock,          \* epoch(): int(time.time())
    srcBytes,       \* content of the source file, or Unreadable
    tplBytes,       \* content of the template file, or NoFile
    installed,      \* the PDF engines which_ok finds on this host
    pandocPresent,  \* which_ok("pandoc") on this host
    disk,           \* artifact files that exist under output_dir
    cache,          \* logs/jobcache: job_key -> text of <job_key>.done
    dirty,          \* some file was changed externally since the last job started
    events,         \* number of external events (a second passing, a file changed) so far
    pc,             \* position of the convert_one call: "idle", "chain", "done"
    job,            \* locals and result of the convert_one call in progress
    last,           \* what the previous convert_one call returned
    METRICS,        \* AgentMetrics._metrics (the counters convert_one and batch touch)
    jobsRun,        \* number of convert_one calls started
    bpc,            \* position of the batch call: "idle", "collect", "returned"
    files,          \* len(list_markdown(input_dir)) of the batch call
    fut,            \* the futures of the batch call, in submission order
    got,            \* what the result loop recorded for each future so far
    summary,        \* the summary dict of the batch call
    exitCode,       \* what batch returned
    SHUTDOWN_EVENT, \* the shutdown flag the signal handler of daemon_main sets
    mpc,            \* position of main: "start", "pidfile", "daemonize", "while",
                    \* "cycle", "for", "sleep", "pause", "batch", "exited"
    args,           \* the parsed command line
    host,           \* what main finds on the host: directories, template file
    marker,         \* content of the PID file
    template_file,  \* the template main hands to batch and watch
    cycles,         \* batch cycles started by main
    sleepLeft,      \* iterations left of the sleep loop of watch
    mainExit,       \* exit status of the process
    mainWhy,        \* the place main stopped at
    epc,            \* position of the call into enhanced_main.py: "idle",
                    \* "ready", "body", "backoff", "done"
    ecall,          \* the method called
    einput,         \* its arguments and what its processes will do
    attempt,        \* retry_with_backoff: the local attempt
    runs,           \* executions of the body of the with statement
    delays,         \* the delays retry_with_backoff slept
    procs,          \* the pandoc processes _perform_conversion ran
    eres,           \* what the call returned or raised
    emetrics,       \* EnhancedMetrics._metrics (the counters convert_file touches)
    live,           \* AgentMetrics._metrics as a Python dict: key -> value, the
                    \* value of 'engine_usage' being a reference to a dict object
    heap,           \* the dict objects references point to: address -> dict
    snapshot,       \* the dict get_metrics returned, or NoSnapshot
    seen,           \* what the caller read from that dict when it was returned
    updates,        \* number of updates of the metrics so far
    probes,         \* what the probes of the health checks find on the host
    hresp,          \* the body of the response to GET /health, or NoResponse
    requires,       \* the template dependency_report is called on: what
                    \* validate_template_syntax and parse_template_requires find
    texlive,        \* the tools and files of the host dependency_report asks for
    report,         \* what dependency_report returned, or NoReport
    tex_path,       \* the file validate_template_syntax is called on
    verdict,        \* what validate_template_syntax returned, or NoVerdict
    selInput,       \* the source, the template and the engines installed, for
                    \* which a PDF engine is chosen
    selected,       \* the engine each entry point starts with, or NoSelection
    lock,           \* the thread inside "with self._lock" of METRICS, or NoHolder
    cells,          \* the counters the threads update: keys of _metrics and of
                    \* _metrics['engine_usage']
    thr,            \* for each worker thread: where it is in its update, the
                    \* counter and amount, the value it read, the updates it made
    applied,        \* for each counter, the sum of the amounts stored so far
    pidfile,        \* the content of the PID file two daemons are started with
    dproc,          \* for each of the two daemons: where it is in pid_file_manager
                    \* and the old_pid it read
    done_files,     \* for each job key, the text of jobcache/<key>.done, or NoDone
    artifacts,      \* the artifact paths that are files in the output directory
    caller,         \* for each thread: where it is in mark_done or in the skip
                    \* check, its key and path, what the skip check returned
    recorded,       \* the <<key, path>> pairs mark_done has written
    active,         \* the convert_one and convert_file calls of the worker and
                    \* API threads: where each is, its arguments, paths and result
    wall,           \* epoch() as these calls read it
    jobcache,       \* for each job key, the path in jobcache/<key>.done, or NoArtifact
    outdir,         \* the artifact files of output_dir: path and the input
                    \* whose conversion wrote the file last
    logsdir         \* the log files: path and the inputs whose jobs appended

jobVars == <<clock, srcBytes, tplBytes, installed, pandocPresent, disk, cache,
             dirty, events, pc, job, last, jobsRun>>

batchVars == <<bpc, files, fut, got, summary, exitCode>>

mainVars == <<mpc, args, host, marker, template_file, cycles, sleepLeft,
              mainExit, mainWhy>>

enhVars == <<epc, ecall, einput, attempt, runs, delays, procs, eres, emetrics>>

snapVars == <<live, heap, snapshot, seen, updates>>

healthVars == <<probes, hresp>>

depVars == <<requires, texlive, report>>

synVars == <<tex_path, verdict>>

selVars == <<selInput, selected>>

lockVars == <<lock, cells, thr, applied>>

pidVars == <<pidfile, dproc>>

ccVars == <<done_files, artifacts, caller, recorded>>

parVars == <<active, wall, jobcache, outdir, logsdir>>

vars == <<jobVars, METRICS, batchVars, SHUTDOWN_EVENT, mainVars, enhVars, snapVars,
          healthVars, depVars, synVars, selVars, lockVars, pidVars, ccVars, parVars>>

\* what convert_one leaves alone, what batch leaves alone, what main leaves
\* alone, what enhanced_main.py leaves alone
outsideJob == <<batchVars, SHUTDOWN_EVENT, mainVars, enhVars, snapVars, healthVars,
                depVars, synVars, selVars, lockVars, pidVars, ccVars, parVars>>
outsideBatch == <<jobVars, SHUTDOWN_EVENT, mainVars, enhVars, snapVars, healthVars,
                  depVars, synVars, selVars, lockVars, pidVars, ccVars, parVars>>
outsideMain == <<jobVars, METRICS, batchVars, enhVars, snapVars, healthVars, depVars,
                 synVars, selVars, lockVars, pidVars, ccVars, parVars>>
outsideEnh == <<jobVars, METRICS, batchVars, SHUTDOWN_EVENT, mainVars, snapVars,
                healthVars, depVars, synVars, selVars, lockVars, pidVars, ccVars,
                parVars>>
outsideSnap == <<jobVars, METRICS, batchVars, SHUTDOWN_EVENT, mainVars, enhVars,
                 healthVars, depVars, synVars, selVars, lockVars, pidVars, ccVars,
                 parVars>>
outsideHealth == <<jobVars, METRICS, batchVars, SHUTDOWN_EVENT, mainVars, enhVars,
                   snapVars, depVars, synVars, selVars, lockVars, pidVars, ccVars,
                   parVars>>
outsideDep == <<jobVars, METRICS, batchVars, SHUTDOWN_EVENT, mainVars, enhVars,
                snapVars, healthVars, synVars, selVars, lockVars, pidVars, ccVars,
                parVars>>
outsideSyn == <<jobVars, METRICS, batchVars, SHUTDOWN_EVENT, mainVars, enhVars,
                snapVars, healthVars, depVars, selVars, lockVars, pidVars, ccVars,
                parVars>>
outsideSel == <<jobVars, METRICS, batchVars, SHUTDOWN_EVENT, mainVars, enhVars,
                snapVars, healthVars, depVars, synVars, lockVars, pidVars, ccVars,
                parVars>>
outsideLock == <<jobVars, METRICS, batchVars, SHUTDOWN_EVENT, mainVars, enhVars,
                 snapVars, healthVars, depVars, synVars, selVars, pidVars, ccVars,
                 parVars>>
outsidePid == <<jobVars, METRICS, batchVars, SHUTDOWN_EVENT, mainVars, enhVars,
                snapVars, healthVars, depVars, synVars, selVars, lockVars, ccVars,
                parVars>>
outsideCache == <<jobVars, METRICS, batchVars, SHUTDOWN_EVENT, mainVars, enhVars,
                  snapVars, healthVars, depVars, synVars, selVars, lockVars, pidVars,
                  parVars>>
outsidePar == <<jobVars, batchVars, SHUTDOWN_EVENT, mainVars, snapVars, healthVars,
                depVars, synVars, selVars, lockVars, pidVars, ccVars>>
\* the state of enhanced_main.py but its metrics
enhRest == <<epc, ecall, einput, attempt, runs, delays, procs, eres>>

envVars == <<clock, srcBytes, tplBytes, installed, pandocPresent>>

\* ---- paths -------------------------------------------------------------
NoPath == [t |-> -1, ext |-> "none"]
ArtifactPath(t, ext) == [t |-> t, ext |-> ext]
NoLog == -1
LogPath(t) == t

\* ---- Content Hasher ----------------------------------------------------
\* sha256_file: "sha256:<hexdigest>" of the bytes, or "sha256:error-<epoch>"
sha256_file(bytes, now) ==
    IF bytes \in Contents
    THEN [kind |-> "hex", v |-> bytes]
    ELSE [kind |-> "error", v |-> now]

\* the literal "sha256:0"*8 used when there is no template file
TplSentinel == [kind |-> "sentinel", v |-> 0]

\* a job key that leaves the template out
compute_job_key_noTemplate(src, tpl, now) ==
    [md |-> sha256_file(src, now), tpl |-> TplSentinel]

\* compute_job_key: sha256_bytes(md_cid + "|" + tpl_cid); "|" occurs in no
\* cid, so the concatenation determines both parts
compute_job_key(src, tpl, now) ==
    [md  |-> sha256_file(src, now),
     tpl |-> IF tpl # NoFile THEN sha256_file(tpl, now) ELSE TplSentinel]

\* ---- Job Cache ---------------------------------------------------------
\* already_done: the text of <job_key>.done if that file exists, else None
already_done(c, k) ==
    IF k \in DOMAIN c THEN c[k] ELSE NoPath

\* a mark_done that records nothing
mark_done_lost(c, k, p) == c

\* a mark_done that keeps the entry a key already has
mark_done_keepFirst(c, k, p) ==
    [x \in (DOMAIN c) \cup {k} |-> IF x \in DOMAIN c THEN c[x] ELSE p]

\* mark_done: (over)write <job_key>.done with the artifact path
mark_done(c, k, p) ==
    [x \in (DOMAIN c) \cup {k} |-> IF x = k THEN p ELSE c[x]]

\* a skip check that trusts the cache entry without looking at the disk
SkipHit_trusting(c, k, d) == already_done(c, k) # NoPath

\* the skip check of convert_one: lines 495-497
SkipHit(c, k, d) ==
    /\ already_done(c, k) # NoPath
    /\ already_done(c, k) \in d

\* ---- strategy chain ------------------------------------------------------
Engines == {PDF_ENGINES[i] : i \in 1..Len(PDF_ENGINES)}

\* the hosts considered: no TeX engine, pdflatex only, every engine
InstalledChoices == {{}, {"pdflatex"}, Engines}

\* dependency_report(template_file)[0] on this host: templates with an odd
\* content have every class, package and tool they declare installed
DepOk(tpl) == tpl % 2 = 1

RECURSIVE EnginesFrom(_, _, _)
EnginesFrom(i, inst, tplUse) ==
    IF i > Len(PDF_ENGINES) THEN <<>>
    ELSE (IF PDF_ENGINES[i] \in inst
          THEN <<[engine |-> PDF_ENGINES[i], tpl |-> tplUse, ext |-> "pdf"]>>
          ELSE <<>>) \o EnginesFrom(i + 1, inst, tplUse)

DocxStrategy == [engine |-> "docx_fallback", tpl |-> FALSE, ext |-> "docx"]
NoStrategy == [engine |-> "none", tpl |-> FALSE, ext |-> "none"]

\* a chain that starts with the DOCX fallback
Chain_docxFirst(tplIsFile, inst) ==
    <<DocxStrategy>> \o EnginesFrom(1, inst, FALSE)

\* Strategy 1 (engines + template, only with a template file), Strategy 2
\* (engines without template), Strategy 3 (DOCX fallback)
Chain(tplIsFile, inst) ==
    (IF tplIsFile THEN EnginesFrom(1, inst, TRUE) ELSE <<>>)
        \o EnginesFrom(1, inst, FALSE) \o <<DocxStrategy>>

\* ---- metrics -------------------------------------------------------------
Inc(m, name, by) == [m EXCEPT ![name] = @ + by]

InitMetrics ==
    [files_processed_total |-> 0, files_failed_total |-> 0,
     files_skipped_total |-> 0, files_degraded_total |-> 0,
     active_jobs |-> 0, queue_depth |-> 0]

\* ---- disk space ----------------------------------------------------------
\* free MB reported for output_dir; DiskErr: shutil.disk_usage raised
NotChecked == -1
DiskErr == -2
FreeChoices == {DiskErr, MinFreeMb - 1, MinFreeMb}

\* a disk check that always passes
validate_disk_space_always(free) == TRUE

\* validate_disk_space: False below min_mb and on any error
validate_disk_space(free) ==
    IF free = DiskErr THEN FALSE
    ELSE IF free < MinFreeMb THEN FALSE
    ELSE TRUE

\* ---- job records -----------------------------------------------------------
NoKey == [md |-> TplSentinel, tpl |-> TplSentinel]

\* useTpl: the template was a file when the chain was built;
\* free: what shutil.disk_usage answered (NotChecked: not asked); won: the
\* strategy that succeeded; nAttempts, log: the attempts made and the entries
\* appended to the log file; timedOut: the position of an attempt that timed
\* out (0: none); src, tpl: the files as the call found them; wouldSucceed:
\* some strategy of the chain would exit 0 and leave its artifact
NoJob ==
    [force |-> FALSE, key |-> NoKey, logf |-> NoLog, useTpl |-> FALSE,
     free |-> NotChecked, wouldSucceed |-> FALSE,
     status |-> "NONE", artifact |-> NoPath, raised |-> FALSE, won |-> NoStrategy,
     nAttempts |-> 0, timedOut |-> 0, log |-> <<>>,
     src |-> NoFile, tpl |-> NoFile, preflight |-> "none"]

\* what the caller keeps of a finished call
Summary(j) ==
    [status |-> j.status, artifact |-> j.artifact, raised |-> j.raised,
     key |-> j.key, src |-> j.src, tpl |-> j.tpl, keyed |-> j.preflight # "dirs"]

NoLast ==
    [status |-> "NONE", artifact |-> NoPath, raised |-> FALSE,
     key |-> NoKey, src |-> NoFile, tpl |-> NoFile, keyed |-> FALSE]

\* ---- batch records ---------------------------------------------------------
NoExit == -1
NoSummary == [OK |-> 0, DEGRADED |-> 0, FAIL |-> 0, SKIP |-> 0]

\* no batch call was made
BatchIdle ==
    /\ bpc = "idle"
    /\ files = 0
    /\ fut = <<>>
    /\ got = <<>>
    /\ summary = NoSummary
    /\ exitCode = NoExit

\* ---- main records -----------------------------------------------------------
NoArgs == [watch |-> FALSE, daemon |-> FALSE, force |-> FALSE, sleep |-> 0]
NoHost == [dirsOk |-> TRUE, tpl |-> "absent", pidfile |-> "none"]

\* main was not started
MainIdle ==
    /\ SHUTDOWN_EVENT = FALSE
    /\ mpc = "idle"
    /\ args = NoArgs
    /\ host = NoHost
    /\ marker = "none"
    /\ template_file = FALSE
    /\ cycles = 0
    /\ sleepLeft = 0
    /\ mainExit = NoExit
    /\ mainWhy = "none"

\* ---- enhanced_main.py records -------------------------------------------------
NoInput == [max_attempts |-> 0, succeedsAt |-> 0, pdf |-> FALSE, engine |-> FALSE,
            primary |-> "none", docx |-> "none", html |-> "none"]
InitEMetrics == [files_processed_total |-> 0, files_failed_total |-> 0,
                 files_retried_total |-> 0, active_jobs |-> 0]

\* nothing of enhanced_main.py was called
EnhIdle ==
    /\ epc = "idle"
    /\ ecall = "none"
    /\ einput = NoInput
    /\ attempt = 0
    /\ runs = 0
    /\ delays = <<>>
    /\ procs = <<>>
    /\ eres = "none"
    /\ emetrics = InitEMetrics

\* ---- metrics objects ----------------------------------------------------------
\* the address of the dict AgentMetrics.__init__ builds for 'engine_usage'
EngineUsageAddr == 1

UsageKeys == Engines \cup {"docx_fallback"}

NoSnapshot == [files_processed_total |-> -1, queue_depth |-> -1, engine_usage |-> 0]
NoValue == [files_processed_total |-> -1, queue_depth |-> -1,
            engine_usage |-> [e \in UsageKeys |-> -1]]

\* AgentMetrics.__init__, and no get_metrics call yet
SnapIdle ==
    /\ live = [files_processed_total |-> 0, queue_depth |-> 0,
               engine_usage |-> EngineUsageAddr]
    /\ heap = [a \in {EngineUsageAddr} |-> [e \in UsageKeys |-> 0]]
    /\ snapshot = NoSnapshot
    /\ seen = NoValue
    /\ updates = 0

\* ---- health records -----------------------------------------------------------
NoProbes == [disk |-> "none", memory |-> "none", pandoc |-> FALSE,
             network |-> "none", write |-> "none"]
NoResponse == [server |-> "none", status |-> "none"]

\* no health request was made
HealthIdle ==
    /\ probes = NoProbes
    /\ hresp = NoResponse

\* ---- dependency records -------------------------------------------------------
NoRequires == [syntax |-> FALSE, class_name |-> "none", pkgs |-> {},
               uses_bibtex_style |-> FALSE, fonts |-> {}]
NoTexlive == [kpsewhich |-> "none", texmf |-> {}, biber |-> FALSE, bibtex |-> FALSE,
              unicode_engine |-> FALSE, fc_list |-> "none"]
NoReport == [ok |-> FALSE, missing |-> {}, notes |-> {}, stage |-> "none"]

\* dependency_report was not called
DepIdle ==
    /\ requires = NoRequires
    /\ texlive = NoTexlive
    /\ report = NoReport

\* ---- template syntax records -------------------------------------------------
NoTexFile == [kind |-> "none", content |-> <<>>]
NoVerdict == [ok |-> FALSE, reason |-> "none", issues |-> {}]

\* validate_template_syntax was not called
SynIdle ==
    /\ tex_path = NoTexFile
    /\ verdict = NoVerdict

\* ---- engine selection records -------------------------------------------------
NoSelInput == [source |-> "none", template |-> "none", which |-> {}]
NoSelection == [enhanced |-> "none", convert_one |-> "none"]

\* no engine was chosen
SelIdle ==
    /\ selInput = NoSelInput
    /\ selected = NoSelection

\* ---- metric update records ------------------------------------------------------
Threads == 1..MaxThreads
NoHolder == 0
Cells == {"active_jobs", "engine_usage.xelatex"}
NoCell == "none"
IdleThread == [at |-> "idle", cell |-> NoCell, amount |-> 0, reg |-> 0, calls |-> 0]

\* no thread updates a counter
LockIdle ==
    /\ lock = NoHolder
    /\ cells = [c \in Cells |-> 0]
    /\ thr = [t \in Threads |-> IdleThread]
    /\ applied = [c \in Cells |-> 0]

\* ---- daemon start records ---------------------------------------------------------
\* the daemons, each named by the text of its process id
Daemons == {"pid1", "pid2"}
NoOldPid == "none"
NoDaemon == [at |-> "none", old_pid |-> NoOldPid]

\* no daemon is being started
PidIdle ==
    /\ pidfile = "none"
    /\ dproc = [d \in Daemons |-> NoDaemon]

\* ---- cache caller records ---------------------------------------------------------
\* a path is a sequence of blocks of four characters
JobKeys == {"K1", "K2"}
NoDone == <<"absent">>
Miss == <<"miss">>
NoCaller == [at |-> "idle", key |-> "none", path |-> <<>>, prior |-> <<"none">>, calls |-> 0]

\* no thread uses the cache
CacheIdle ==
    /\ done_files = [k \in JobKeys |-> NoDone]
    /\ artifacts = {}
    /\ caller = [t \in Threads |-> NoCaller]
    /\ recorded = {}

\* ---- concurrent job records -------------------------------------------------------
\* an input file: the characters of its name before the extension, and the extension
NoName == [base |-> <<>>, ext |-> "none"]
NoLogFile == [t |-> -1, stem |-> <<>>]
NoArtifact == [t |-> -1, stem |-> <<>>, ext |-> "none"]
NoCall == [at |-> "none", fn |-> "none", md |-> NoName, force |-> FALSE, key |-> 0,
           logf |-> NoLogFile, status |-> "NONE", artifact |-> NoArtifact,
           ranChain |-> FALSE]

\* no call is made
ParIdle ==
    /\ active = [c \in Threads |-> NoCall]
    /\ wall = 0
    /\ jobcache = [k \in Contents |-> NoArtifact]
    /\ outdir = {}
    /\ logsdir = {}

\* ---- Init ------------------------------------------------------------------
Init ==
    /\ clock = 0
    /\ srcBytes \in {1, Unreadable}
    /\ tplBytes \in {1, NoFile}
    /\ installed \in InstalledChoices
    /\ pandocPresent \in BOOLEAN
    /\ disk = {}
    /\ cache = <<>>
    /\ dirty = FALSE
    /\ events = 0
    /\ pc = "idle"
    /\ job = NoJob
    /\ last = NoLast
    /\ METRICS = InitMetrics
    /\ jobsRun = 0
    /\ BatchIdle
    /\ MainIdle
    /\ EnhIdle
    /\ SnapIdle
    /\ HealthIdle
    /\ DepIdle
    /\ SynIdle
    /\ SelIdle
    /\ LockIdle
    /\ PidIdle
    /\ CacheIdle
    /\ ParIdle

\* ---- convert_one ------------------------------------------------------------
\* lines 477-516: entry, directories, job key, skip check, disk space, preflight
StartJob ==
    /\ pc = "idle"
    /\ jobsRun < MaxJobs
    /\ jobsRun' = jobsRun + 1
    /\ dirty' = FALSE
    /\ last' = NoLast
    /\ \E force \in BOOLEAN :
         LET job_key == compute_job_key(srcBytes, tplBytes, clock)
             logf == LogPath(clock)
             prior == already_done(cache, job_key)
             tplIsFile == tplBytes # NoFile
             base == [NoJob EXCEPT !.force = force, !.src = srcBytes, !.tpl = tplBytes]
             keyed == [base EXCEPT !.key = job_key, !.logf = logf]
             depLog == IF tplIsFile
                       THEN (IF DepOk(tplBytes) THEN <<"DEP">> ELSE <<"DEP", "DEP_MISSING">>)
                       ELSE <<>>
         IN  \/ \* ensure_host_directories failed
                /\ job' = [base EXCEPT !.status = "FAIL", !.preflight = "dirs"]
                /\ METRICS' = Inc(METRICS, "files_failed_total", 1)
                /\ pc' = "done"
             \/ /\ ~force /\ SkipHit(cache, job_key, disk)
                /\ job' = [keyed EXCEPT !.status = "SKIP", !.artifact = prior,
                                        !.log = <<"SKIP">>]
                /\ METRICS' = Inc(METRICS, "files_skipped_total", 1)
                /\ pc' = "done"
             \/ /\ ~(~force /\ SkipHit(cache, job_key, disk))
                /\ \E free \in FreeChoices :
                     IF ~validate_disk_space(free)
                     THEN /\ job' = [keyed EXCEPT !.status = "FAIL", !.preflight = "disk",
                                                  !.free = free, !.log = <<"FAIL_DISK">>]
                          /\ METRICS' = Inc(METRICS, "files_failed_total", 1)
                          /\ pc' = "done"
                     ELSE /\ job' = [keyed EXCEPT !.status = "RUNNING", !.log = depLog,
                                                  !.free = free]
                          /\ METRICS' = Inc(METRICS, "active_jobs", 1)
                          /\ pc' = "chain"
    /\ UNCHANGED <<envVars, disk, cache, events>>
    /\ UNCHANGED outsideJob

\* the log entry try_pandoc_pdf / try_docx appends for one attempt
AttemptEntry(s) == IF s.ext = "docx" THEN "DOCX" ELSE "CMD"

\* a status that does not tell the DOCX fallback from a PDF
StatusOf_alwaysOK(s) == "OK"

\* the status convert_one returns when strategy s succeeded
StatusOf(s) == IF s.ext = "docx" THEN "DEGRADED" ELSE "OK"

\* the counter convert_one increments when strategy s succeeded
CounterOf(s) == IF s.ext = "docx" THEN "files_degraded_total" ELSE "files_processed_total"

\* a call that returns the artifact path without opening the file
ArtifactRead_unopened(art, out, d) == TRUE

\* open(pdf_out, "rb") after mark_done finds the file: the renderer left it,
\* or a file of that name was there before
ArtifactRead(art, out, d) == art \/ (out \in d)

\* the entries try_pandoc_pdf / try_docx append for the first k attempts
AttemptLog(ch, k) == [i \in 1..k |-> AttemptEntry(ch[i])]

\* lines 518-569: the strategy chain, each strategy a renderer process run to
\* its end before the next is started, and the return or escaping exception.
\*   n    position of the first attempt whose process exits 0 (0: none does;
\*        the others end nonzero, by timeout or, without pandoc, by an error
\*        of subprocess.run, all reported by run as not ok)
\*   art  that process leaves its artifact on disk
\*   w    some strategy of the chain would exit 0 and leave its artifact
\*   tmo  position of an attempt that times out (0: none): the one before
\*        the attempt that exits 0, or the last one of an exhausted chain
\*   t    position of an attempt that times out after its process wrote
\*        output: run adds a str to the bytes TimeoutExpired carries, and
\*        the TypeError leaves run, try_pandoc_pdf and convert_one
\* The output file is named after the second the chain runs in; seconds that
\* pass during the call pass between the preflight and the chain (Tick).
RunChain ==
    /\ pc = "chain"
    /\ LET tplIsFile == tplBytes # NoFile
           ch == Chain(tplIsFile, installed)
           canRun == pandocPresent /\ srcBytes \in Contents
       IN  \/ \E t \in 1..Len(ch), w \in BOOLEAN :
                /\ pandocPresent
                /\ w => (canRun /\ t < Len(ch))
                /\ pc' = "done"
                /\ job' = [job EXCEPT !.nAttempts = t, !.timedOut = t,
                                      !.useTpl = tplIsFile, !.wouldSucceed = w,
                                      !.status = "RAISED", !.raised = TRUE,
                                      !.log = @ \o AttemptLog(ch, t - 1)]
                /\ METRICS' = Inc(METRICS, "active_jobs", -1)
                /\ UNCHANGED <<disk, cache>>
           \/ \E n \in 0..Len(ch), art \in BOOLEAN, w \in BOOLEAN :
               \E tmo \in {0, IF n = 0 THEN Len(ch) ELSE n - 1} :
                 /\ (n # 0) => canRun
                 /\ (n = 0) => (~art /\ ~w)
                 /\ (tmo # 0) => pandocPresent
                 /\ art => w
                 /\ (w /\ ~art) => n < Len(ch)
                 /\ pc' = "done"
                 /\ IF n # 0
                    THEN LET s == ch[n]
                             out == ArtifactPath(clock, s.ext)
                             present == ArtifactRead(art, out, disk)
                             noteLog == IF s.ext = "pdf" /\ ~s.tpl THEN <<"NOTE">> ELSE <<>>
                             tried == [job EXCEPT !.nAttempts = n, !.timedOut = tmo,
                                                  !.useTpl = tplIsFile,
                                                  !.wouldSucceed = w,
                                                  !.log = @ \o AttemptLog(ch, n) \o noteLog]
                         IN  /\ disk' = IF art THEN disk \cup {out} ELSE disk
                             /\ cache' = mark_done(cache, job.key, out)
                             /\ IF present
                                THEN /\ job' = [tried EXCEPT
                                            !.status = StatusOf(s), !.artifact = out,
                                            !.won = s, !.log = @ \o <<"ARTIFACT">>]
                                     /\ METRICS' = Inc(Inc(METRICS, CounterOf(s), 1),
                                                       "active_jobs", -1)
                                ELSE /\ job' = [tried EXCEPT
                                            !.status = "RAISED", !.raised = TRUE]
                                     /\ METRICS' = Inc(METRICS, "active_jobs", -1)
                    ELSE /\ UNCHANGED <<disk, cache>>
                         /\ job' = [job EXCEPT !.nAttempts = Len(ch), !.timedOut = tmo,
                                               !.useTpl = tplIsFile,
                                               !.wouldSucceed = w, !.status = "FAIL",
                                               !.log = @ \o AttemptLog(ch, Len(ch))
                                                         \o <<"FATAL">>]
                         /\ METRICS' = Inc(Inc(METRICS, "files_failed_total", 1),
                                           "active_jobs", -1)
    /\ UNCHANGED <<envVars, dirty, events, last, jobsRun>>
    /\ UNCHANGED outsideJob

\* the call is over: the caller has the triple (or the exception)
Return ==
    /\ pc = "done"
    /\ pc' = "idle"
    /\ last' = Summary(job)
    /\ job' = NoJob
    /\ UNCHANGED <<envVars, disk, cache, dirty, events, METRICS, jobsRun>>
    /\ UNCHANGED outsideJob

\* ---- environment ------------------------------------------------------------
Tick ==
    /\ pc # "done"
    /\ events < MaxEvents
    /\ clock' = clock + 1
    /\ events' = events + 1
    /\ UNCHANGED <<srcBytes, tplBytes, installed, pandocPresent, disk, cache,
                   dirty, pc, job, last, METRICS, jobsRun>>
    /\ UNCHANGED outsideJob

EditSource ==
    /\ pc # "done"
    /\ events < MaxEvents
    /\ \E b \in (Contents \cup {Unreadable}) \ {srcBytes} : srcBytes' = b
    /\ dirty' = TRUE
    /\ events' = events + 1
    /\ UNCHANGED <<clock, tplBytes, installed, pandocPresent, disk, cache, pc,
                   job, last, METRICS, jobsRun>>
    /\ UNCHANGED outsideJob

EditTemplate ==
    /\ pc # "done"
    /\ events < MaxEvents
    /\ \E b \in (Contents \cup {NoFile}) \ {tplBytes} : tplBytes' = b
    /\ dirty' = TRUE
    /\ events' = events + 1
    /\ UNCHANGED <<clock, srcBytes, installed, pandocPresent, disk, cache, pc,
                   job, last, METRICS, jobsRun>>
    /\ UNCHANGED outsideJob

DeleteArtifact ==
    /\ pc # "done"
    /\ events < MaxEvents
    /\ \E p \in disk : disk' = disk \ {p}
    /\ dirty' = TRUE
    /\ events' = events + 1
    /\ UNCHANGED <<envVars, cache, pc, job, last, METRICS, jobsRun>>
    /\ UNCHANGED outsideJob

Next ==
    \/ StartJob
    \/ RunChain
    \/ Return
    \/ Tick
    \/ EditSource
    \/ EditTemplate
    \/ DeleteArtifact

Spec == Init /\ [][Next]_vars

TypeOK ==
    /\ clock \in Epochs
    /\ pc \in {"idle", "chain", "done"}
    /\ METRICS.active_jobs \in {0, 1}

\* ---- batch -------------------------------------------------------------------
\* what a convert_one call run by a worker ends with: one of its four
\* statuses, or an exception ("RAISE")
JobOutcomes == {"OK", "DEGRADED", "FAIL", "SKIP", "RAISE"}

Min(a, b) == IF a < b THEN a ELSE b

Running == {i \in 1..files : fut[i] = "running"}

\* summary[st] += 1
Tally(sm, st) == [sm EXCEPT ![st] = @ + 1]

\* an except branch that counts nothing
ExceptTally_dropped(sm) == sm

\* the except branch of the result loop: summary["FAIL"] += 1
ExceptTally(sm) == Tally(sm, "FAIL")

\* an exit status that also reports degraded files as failures
ExitCode_degraded(sm) == IF sm.FAIL + sm.DEGRADED = 0 THEN 0 ELSE 2

\* return 0 if summary["FAIL"] == 0 else 2
ExitCode(sm) == IF sm.FAIL = 0 THEN 0 ELSE 2

\* batch up to the end of the submit loop; with no file it returns 0 at once
BatchStart ==
    /\ bpc = "idle"
    /\ exitCode = NoExit
    /\ \E n \in 0..MaxFiles :
         /\ files' = n
         /\ IF n = 0
            THEN /\ bpc' = "returned"
                 /\ exitCode' = 0
                 /\ UNCHANGED <<fut, METRICS>>
            ELSE /\ bpc' = "collect"
                 /\ fut' = [i \in 1..n |-> "queued"]
                 /\ METRICS' = [METRICS EXCEPT !.queue_depth = n]
                 /\ UNCHANGED exitCode
    /\ UNCHANGED <<got, summary>>
    /\ UNCHANGED outsideBatch

\* a pool with a worker for every file
PoolSize_unbounded(n) == n

\* ThreadPoolExecutor(max_workers=min(4, len(files)))
PoolSize(n) == Min(MaxWorkers, n)

\* a free worker of the pool takes the oldest queued call
WorkerStart ==
    /\ bpc = "collect"
    /\ Cardinality(Running) < PoolSize(files)
    /\ \E i \in 1..files :
         /\ fut[i] = "queued"
         /\ \A j \in 1..(i - 1) : fut[j] # "queued"
         /\ fut' = [fut EXCEPT ![i] = "running"]
    /\ UNCHANGED <<bpc, files, got, summary, exitCode, METRICS>>
    /\ UNCHANGED outsideBatch

\* a running convert_one call returns or raises
WorkerFinish ==
    /\ bpc = "collect"
    /\ \E i \in Running, r \in JobOutcomes : fut' = [fut EXCEPT ![i] = r]
    /\ UNCHANGED <<bpc, files, got, summary, exitCode, METRICS>>
    /\ UNCHANGED outsideBatch

\* one iteration of the result loop on a finished future
Collect ==
    /\ bpc = "collect"
    /\ Len(got) < files
    /\ LET r == fut[Len(got) + 1]
       IN  /\ r \in JobOutcomes
           /\ IF r = "RAISE"
              THEN /\ summary' = ExceptTally(summary)
                   /\ got' = Append(got, [st |-> "FAIL", how |-> "except"])
              ELSE /\ summary' = Tally(summary, r)
                   /\ got' = Append(got, [st |-> r, how |-> "result"])
    /\ UNCHANGED <<bpc, files, fut, exitCode, METRICS>>
    /\ UNCHANGED outsideBatch

\* one iteration of the result loop whose future.result(timeout=...) times out
CollectTimeout ==
    /\ bpc = "collect"
    /\ Len(got) < files
    /\ fut[Len(got) + 1] \notin JobOutcomes
    /\ summary' = ExceptTally(summary)
    /\ got' = Append(got, [st |-> "FAIL", how |-> "timeout"])
    /\ UNCHANGED <<bpc, files, fut, exitCode, METRICS>>
    /\ UNCHANGED outsideBatch

\* the executor has shut down (every call is over) and batch returns
BatchReturn ==
    /\ bpc = "collect"
    /\ Len(got) = files
    /\ \A i \in 1..files : fut[i] \in JobOutcomes
    /\ METRICS' = [METRICS EXCEPT !.queue_depth = 0]
    /\ exitCode' = ExitCode(summary)
    /\ bpc' = "returned"
    /\ UNCHANGED <<files, fut, got, summary>>
    /\ UNCHANGED outsideBatch

InitBatch ==
    /\ clock = 0
    /\ srcBytes = 1
    /\ tplBytes = NoFile
    /\ installed = Engines
    /\ pandocPresent = TRUE
    /\ disk = {}
    /\ cache = <<>>
    /\ dirty = FALSE
    /\ events = 0
    /\ pc = "idle"
    /\ job = NoJob
    /\ last = NoLast
    /\ METRICS = InitMetrics
    /\ jobsRun = 0
    /\ BatchIdle
    /\ MainIdle
    /\ EnhIdle
    /\ SnapIdle
    /\ HealthIdle
    /\ DepIdle
    /\ SynIdle
    /\ SelIdle
    /\ LockIdle
    /\ PidIdle
    /\ CacheIdle
    /\ ParIdle

NextBatch ==
    \/ BatchStart
    \/ WorkerStart
    \/ WorkerFinish
    \/ Collect
    \/ CollectTimeout
    \/ BatchReturn

SpecBatch == InitBatch /\ [][NextBatch]_vars

\* a worker thread that is free takes the next call of the queue, and a
\* convert_one call ends: each of its processes runs under a timeout
SpecBatchFair ==
    /\ InitBatch
    /\ [][NextBatch]_vars
    /\ WF_vars(WorkerStart)
    /\ WF_vars(WorkerFinish)

\* SIGTERM or SIGINT reaches the daemon while batch runs: signal_handler
SignalDuringBatch ==
    /\ bpc = "collect"
    /\ ~SHUTDOWN_EVENT
    /\ SHUTDOWN_EVENT' = TRUE
    /\ UNCHANGED <<jobVars, METRICS, batchVars, mainVars, enhVars, snapVars,
                   healthVars, depVars, synVars, selVars, lockVars, pidVars, ccVars,
                   parVars>>

NextBatchSignal ==
    \/ NextBatch
    \/ SignalDuringBatch

SpecBatchSignal == InitBatch /\ [][NextBatchSignal]_vars

\* ---- main, pid_file_manager, watch ----------------------------------------------
\* --sleep values: negative, zero, positive
SleepChoices == {-1, 0, 2}

\* what the PID file holds when main starts: nothing (no file), the id of a
\* live process the caller may signal, the id of a live process it may not
\* (os.kill raises PermissionError), the id of a process that is gone, text
\* int() rejects
MarkerChoices == {"none", "alive", "alive_eperm", "dead", "garbage"}

\* the --template path: not a file, a file validate_template_syntax accepts,
\* a file it rejects
TplChoices == {"absent", "valid", "invalid"}

Max(a, b) == IF a > b THEN a ELSE b

\* the process ends with this status
Exit(code, why) ==
    /\ mpc' = "exited"
    /\ mainExit' = code
    /\ mainWhy' = why

\* a template check that --force does not override
TemplateRejected_strict(tpl, force) == tpl = "invalid"

\* the template is a file validate_template_syntax rejects and --force is
\* not given: lines 1086-1096
TemplateRejected(tpl, force) == tpl = "invalid" /\ ~force

\* main from the mode check to the mode selection: lines 1063-1113
MainStart ==
    /\ mpc = "start"
    /\ IF args.watch /\ args.daemon
       THEN Exit(1, "conflict") /\ UNCHANGED template_file
       ELSE IF ~pandocPresent
       THEN Exit(2, "pandoc") /\ UNCHANGED template_file
       ELSE IF ~host.dirsOk
       THEN Exit(2, "dirs") /\ UNCHANGED template_file
       ELSE IF TemplateRejected(host.tpl, args.force)
       THEN Exit(2, "template") /\ UNCHANGED template_file
       ELSE /\ template_file' = (host.tpl # "absent")
            /\ mpc' = IF args.daemon THEN "pidfile"
                      ELSE IF args.watch THEN "while" ELSE "batch"
            /\ UNCHANGED <<mainExit, mainWhy>>
    /\ UNCHANGED <<args, host, marker, cycles, sleepLeft, SHUTDOWN_EVENT>>
    /\ UNCHANGED outsideMain

\* a check that takes every PID file for the mark of a running daemon
Probe_trusting(m) == IF m = "none" THEN "free" ELSE "running"

\* the check of the PID file: os.path.exists, int(f.read().strip()),
\* os.kill(old_pid, 0) and the except clauses around them
Probe(m) ==
    IF m = "alive" THEN "running"
    ELSE IF m = "alive_eperm" THEN "PermissionError"
    ELSE "free"

\* pid_file_manager up to its yield, and what main makes of its exceptions
PidFile ==
    /\ mpc = "pidfile"
    /\ IF Probe(marker) = "running"
       THEN \* raise SystemExit(3)
            Exit(3, "running") /\ UNCHANGED marker
       ELSE IF Probe(marker) = "PermissionError"
       THEN \* PermissionError escapes pid_file_manager; main returns 1
            Exit(1, "pid_error") /\ UNCHANGED marker
       ELSE \* no file, a stale file removed, or an unparsable one overwritten
            /\ marker' = "self"
            /\ mpc' = "daemonize"
            /\ UNCHANGED <<mainExit, mainWhy>>
    /\ UNCHANGED <<args, host, template_file, cycles, sleepLeft, SHUTDOWN_EVENT>>
    /\ UNCHANGED outsideMain

\* daemon.DaemonContext is entered, or raises; daemon_main installs the
\* signal handlers and calls watch
Daemonize ==
    /\ mpc = "daemonize"
    /\ \/ mpc' = "while" /\ UNCHANGED <<mainExit, mainWhy>>
       \/ Exit(1, "error")
    /\ UNCHANGED <<args, host, marker, template_file, cycles, sleepLeft,
                   SHUTDOWN_EVENT>>
    /\ UNCHANGED outsideMain

InWatch == mpc \in {"while", "cycle", "for", "sleep", "pause"}

\* SIGTERM or SIGINT reaches the daemon: signal_handler
SignalShutdown ==
    /\ args.daemon
    /\ InWatch
    /\ ~SHUTDOWN_EVENT
    /\ SHUTDOWN_EVENT' = TRUE
    /\ UNCHANGED mainVars
    /\ UNCHANGED outsideMain

\* Ctrl-C in the foreground: KeyboardInterrupt ends watch, or main
Interrupt ==
    /\ ~args.daemon
    /\ InWatch \/ mpc = "batch"
    /\ Exit(0, "interrupt")
    /\ UNCHANGED <<args, host, marker, template_file, cycles, sleepLeft,
                   SHUTDOWN_EVENT>>
    /\ UNCHANGED outsideMain

\* while not SHUTDOWN_EVENT.is_set()
WhileCheck ==
    /\ mpc = "while"
    /\ IF SHUTDOWN_EVENT
       THEN Exit(0, "shutdown")
       ELSE mpc' = "cycle" /\ UNCHANGED <<mainExit, mainWhy>>
    /\ UNCHANGED <<args, host, marker, template_file, cycles, sleepLeft,
                   SHUTDOWN_EVENT>>
    /\ UNCHANGED outsideMain

\* watch calls batch; batch returns, or raises into the except branch
RunCycle ==
    /\ mpc = "cycle"
    /\ cycles < MaxCycles
    /\ cycles' = cycles + 1
    /\ \/ mpc' = "for" /\ sleepLeft' = Max(1, args.sleep)
       \/ mpc' = "pause" /\ UNCHANGED sleepLeft
    /\ UNCHANGED <<args, host, marker, template_file, mainExit, mainWhy,
                   SHUTDOWN_EVENT>>
    /\ UNCHANGED outsideMain

\* a sleep loop that does not look at the flag
SleepLoopEnds_deaf(left, flag) == left = 0

\* the sleep loop is left: range(max(1, sleep_sec)) is used up, or the flag
\* is set
SleepLoopEnds(left, flag) == left = 0 \/ flag

\* the head of one iteration of the sleep loop: the flag is looked at
ForCheck ==
    /\ mpc = "for"
    /\ IF SleepLoopEnds(sleepLeft, SHUTDOWN_EVENT)
       THEN mpc' = "while" /\ sleepLeft' = 0
       ELSE mpc' = "sleep" /\ UNCHANGED sleepLeft
    /\ UNCHANGED <<args, host, marker, template_file, cycles, mainExit, mainWhy,
                   SHUTDOWN_EVENT>>
    /\ UNCHANGED outsideMain

\* time.sleep(1) is over
SleepOne ==
    /\ mpc = "sleep"
    /\ sleepLeft' = sleepLeft - 1
    /\ mpc' = "for"
    /\ UNCHANGED <<args, host, marker, template_file, cycles, mainExit, mainWhy,
                   SHUTDOWN_EVENT>>
    /\ UNCHANGED outsideMain

\* time.sleep(5) of the except branch is over
Pause ==
    /\ mpc = "pause"
    /\ mpc' = "while"
    /\ UNCHANGED <<args, host, marker, template_file, cycles, sleepLeft,
                   mainExit, mainWhy, SHUTDOWN_EVENT>>
    /\ UNCHANGED outsideMain

\* batch mode: return batch(...), or main's except branch
MainBatch ==
    /\ mpc = "batch"
    /\ cycles' = cycles + 1
    /\ \/ \E r \in {0, 2} : Exit(r, "batch")
       \/ Exit(1, "error")
    /\ UNCHANGED <<args, host, marker, template_file, sleepLeft, SHUTDOWN_EVENT>>
    /\ UNCHANGED outsideMain

InitMain ==
    /\ clock = 0
    /\ srcBytes = 1
    /\ tplBytes = NoFile
    /\ installed = Engines
    /\ pandocPresent \in BOOLEAN
    /\ disk = {}
    /\ cache = <<>>
    /\ dirty = FALSE
    /\ events = 0
    /\ pc = "idle"
    /\ job = NoJob
    /\ last = NoLast
    /\ METRICS = InitMetrics
    /\ jobsRun = 0
    /\ BatchIdle
    /\ SHUTDOWN_EVENT = FALSE
    /\ mpc = "start"
    /\ args \in [watch : BOOLEAN, daemon : BOOLEAN, force : BOOLEAN,
                 sleep : SleepChoices]
    /\ host \in [dirsOk : BOOLEAN, tpl : TplChoices, pidfile : MarkerChoices]
    /\ marker = host.pidfile
    /\ template_file = FALSE
    /\ cycles = 0
    /\ sleepLeft = 0
    /\ mainExit = NoExit
    /\ mainWhy = "none"
    /\ EnhIdle
    /\ SnapIdle
    /\ HealthIdle
    /\ DepIdle
    /\ SynIdle
    /\ SelIdle
    /\ LockIdle
    /\ PidIdle
    /\ CacheIdle
    /\ ParIdle

NextMain ==
    \/ MainStart
    \/ PidFile
    \/ Daemonize
    \/ SignalShutdown
    \/ Interrupt
    \/ WhileCheck
    \/ RunCycle
    \/ ForCheck
    \/ SleepOne
    \/ Pause
    \/ MainBatch

SpecMain == InitMain /\ [][NextMain]_vars

\* ---- enhanced_main.py ------------------------------------------------------------
\* ResilienceManager.retry_delays
retry_delays == <<1, 2, 5, 10, 30>>

\* what a pandoc process run by subprocess.run ends with: exit status 0,
\* another exit status, TimeoutExpired, another exception
ProcOutcomes == {"exit0", "nonzero", "timeout", "error"}

\* the call is over
EDone(r) == epc' = "done" /\ eres' = r

\* with retry_with_backoff(name, max_attempts) is entered: the generator runs
\* to its first yield, or ends without one
RetryEnter ==
    /\ epc = "ready"
    /\ \E m \in 0..MaxRetry, k \in 0..MaxRetry :
         /\ einput' = [NoInput EXCEPT !.max_attempts = m, !.succeedsAt = k]
         /\ ecall' = "retry"
         /\ IF 0 < m
            THEN epc' = "body" /\ UNCHANGED eres
            ELSE EDone("RuntimeError")
    /\ UNCHANGED <<attempt, runs, delays, procs, emetrics>>
    /\ UNCHANGED outsideEnh

\* the body of the with statement runs; its exception is thrown into the
\* generator at the yield
RetryBody ==
    /\ epc = "body"
    /\ runs' = runs + 1
    /\ IF runs + 1 = einput.succeedsAt
       THEN \* the generator is resumed, breaks and ends
            EDone("completed") /\ UNCHANGED <<attempt, delays>>
       ELSE /\ attempt' = attempt + 1
            /\ IF attempt + 1 >= einput.max_attempts
               THEN EDone("Exception") /\ UNCHANGED delays
               ELSE /\ delays' = Append(delays,
                           retry_delays[Min(attempt + 1, Len(retry_delays))])
                    /\ epc' = "backoff"
                    /\ UNCHANGED eres
    /\ UNCHANGED <<ecall, einput, procs, emetrics>>
    /\ UNCHANGED outsideEnh

\* time.sleep(delay) is over: the generator loops and yields again, which
\* contextlib answers with RuntimeError("generator didn't stop after throw()")
RetryResume ==
    /\ epc = "backoff"
    /\ EDone("RuntimeError")
    /\ UNCHANGED <<ecall, einput, attempt, runs, delays, procs, emetrics>>
    /\ UNCHANGED outsideEnh

\* _try_fallback_conversion: DOCX, then HTML; when neither raises and
\* neither exits 0 the function ends without a return statement
Fallback(docx, html) ==
    IF docx = "exit0" THEN [st |-> "DEGRADED", ran |-> <<"docx">>]
    ELSE IF html = "exit0" THEN [st |-> "DEGRADED", ran |-> <<"docx", "html">>]
    ELSE IF html = "nonzero" THEN [st |-> "None", ran |-> <<"docx", "html">>]
    ELSE [st |-> "FAIL", ran |-> <<"docx", "html">>]

\* EnhancedConverter._perform_conversion, called on its own
PerformConversion ==
    /\ epc = "ready"
    /\ \E pdf \in BOOLEAN, engine \in BOOLEAN, p \in ProcOutcomes,
          d \in ProcOutcomes, h \in ProcOutcomes :
         /\ einput' = [NoInput EXCEPT !.pdf = pdf, !.engine = engine,
                                      !.primary = p, !.docx = d, !.html = h]
         /\ ecall' = "perform"
         /\ IF pdf /\ engine
            THEN \* metrics.increment("engine_usage", labels=...) raises
                 EDone("TypeError") /\ UNCHANGED procs
            ELSE IF p = "exit0"
            THEN EDone("OK") /\ procs' = <<"primary">>
            ELSE IF p = "nonzero"
            THEN /\ EDone(Fallback(d, h).st)
                 /\ procs' = <<"primary">> \o Fallback(d, h).ran
            ELSE \* except Exception: return ("FAIL", "", ...)
                 EDone("FAIL") /\ procs' = <<"primary">>
    /\ UNCHANGED <<attempt, runs, delays, emetrics>>
    /\ UNCHANGED outsideEnh

\* EnhancedMetrics.increment(metric, value, labels): the entry is raised by
\* value, which is a TypeError for the entries that are dicts
EIncrement(m, metric) ==
    IF metric \in {"format_usage", "engine_usage", "error_types"}
    THEN [raised |-> TRUE, m |-> m]
    ELSE [raised |-> FALSE, m |-> [m EXCEPT ![metric] = @ + 1]]

\* EnhancedConverter.convert_file: increment("format_usage") raises in the
\* try block, increment("error_types") raises in the except block
ConvertFile ==
    /\ epc = "ready"
    /\ ecall' = "convert_file"
    /\ einput' = NoInput
    /\ LET entered == EIncrement(emetrics, "active_jobs").m
           first == EIncrement(entered, "format_usage")
           failed == EIncrement(first.m, "files_failed_total").m
           second == EIncrement(failed, "error_types")
       IN  /\ first.raised /\ second.raised
           /\ emetrics' = [second.m EXCEPT !.active_jobs = @ - 1]
           /\ EDone("TypeError")
    /\ UNCHANGED <<attempt, runs, delays, procs>>
    /\ UNCHANGED outsideEnh

InitEnhanced ==
    /\ clock = 0
    /\ srcBytes = 1
    /\ tplBytes = NoFile
    /\ installed = Engines
    /\ pandocPresent = TRUE
    /\ disk = {}
    /\ cache = <<>>
    /\ dirty = FALSE
    /\ events = 0
    /\ pc = "idle"
    /\ job = NoJob
    /\ last = NoLast
    /\ METRICS = InitMetrics
    /\ jobsRun = 0
    /\ BatchIdle
    /\ MainIdle
    /\ epc = "ready"
    /\ ecall = "none"
    /\ einput = NoInput
    /\ attempt = 0
    /\ runs = 0
    /\ delays = <<>>
    /\ procs = <<>>
    /\ eres = "none"
    /\ emetrics = InitEMetrics
    /\ SnapIdle
    /\ HealthIdle
    /\ DepIdle
    /\ SynIdle
    /\ SelIdle
    /\ LockIdle
    /\ PidIdle
    /\ CacheIdle
    /\ ParIdle

NextEnhanced ==
    \/ RetryEnter
    \/ RetryBody
    \/ RetryResume
    \/ PerformConversion
    \/ ConvertFile

SpecEnhanced == InitEnhanced /\ [][NextEnhanced]_vars

\* ---- AgentMetrics ------------------------------------------------------------------
\* what a reader of the dict d finds: its scalar entries and, through the
\* reference, the entries of the engine_usage dict
Value(d, h) ==
    [files_processed_total |-> d.files_processed_total,
     queue_depth |-> d.queue_depth,
     engine_usage |-> h[d.engine_usage]]

\* AgentMetrics.increment: self._metrics[metric] += value rebinds the key
MetricsIncrement ==
    /\ updates < MaxUpdates
    /\ updates' = updates + 1
    /\ live' = [live EXCEPT !.files_processed_total = @ + 1]
    /\ UNCHANGED <<heap, snapshot, seen>>
    /\ UNCHANGED outsideSnap

\* AgentMetrics.set_gauge: self._metrics[metric] = value rebinds the key
MetricsSetGauge ==
    /\ updates < MaxUpdates
    /\ updates' = updates + 1
    /\ \E v \in (0..MaxFiles) \ {live.queue_depth} :
         live' = [live EXCEPT !.queue_depth = v]
    /\ UNCHANGED <<heap, snapshot, seen>>
    /\ UNCHANGED outsideSnap

\* try_pandoc_pdf, try_docx after a process that succeeded:
\* METRICS._metrics['engine_usage'][engine] += 1 changes the dict object
EngineUsed ==
    /\ updates < MaxUpdates
    /\ updates' = updates + 1
    /\ \E e \in UsageKeys :
         heap' = [heap EXCEPT ![live.engine_usage][e] = @ + 1]
    /\ UNCHANGED <<live, snapshot, seen>>
    /\ UNCHANGED outsideSnap

\* AgentMetrics.get_metrics: self._metrics.copy() is a new dict with the
\* same values, references included
GetMetrics ==
    /\ snapshot = NoSnapshot
    /\ snapshot' = live
    /\ seen' = Value(live, heap)
    /\ UNCHANGED <<live, heap, updates>>
    /\ UNCHANGED outsideSnap

InitSnap ==
    /\ clock = 0
    /\ srcBytes = 1
    /\ tplBytes = NoFile
    /\ installed = Engines
    /\ pandocPresent = TRUE
    /\ disk = {}
    /\ cache = <<>>
    /\ dirty = FALSE
    /\ events = 0
    /\ pc = "idle"
    /\ job = NoJob
    /\ last = NoLast
    /\ METRICS = InitMetrics
    /\ jobsRun = 0
    /\ BatchIdle
    /\ MainIdle
    /\ EnhIdle
    /\ SnapIdle
    /\ HealthIdle
    /\ DepIdle
    /\ SynIdle
    /\ SelIdle
    /\ LockIdle
    /\ PidIdle
    /\ CacheIdle
    /\ ParIdle

NextSnap ==
    \/ MetricsIncrement
    \/ MetricsSetGauge
    \/ EngineUsed
    \/ GetMetrics

SpecSnap == InitSnap /\ [][NextSnap]_vars

\* ---- GET /health -------------------------------------------------------------------
\* the free space of a directory against min_gb, or shutil.disk_usage raising
DiskProbes == {"low", "enough", "error"}
\* psutil not installed, memory.percent against max_usage_percent, psutil raising
MemoryProbes == {"no_psutil", "high", "fine", "error"}
\* connect_ex to 8.8.8.8:53 returning 0, returning an errno, raising
NetworkProbes == {"connected", "refused", "error"}
\* writing .permission_test in a directory works, or raises
WriteProbes == {"written", "error"}

\* ResilienceManager._check_disk_space
check_disk_space(p) == p.disk = "enough"
\* ResilienceManager._check_memory
check_memory(p) == p.memory \in {"no_psutil", "fine"}
\* ResilienceManager._check_dependencies
check_dependencies(p) == p.pandoc
\* ResilienceManager._check_network
check_network(p) == p.network = "connected"
\* ResilienceManager._check_permissions
check_permissions(p) == p.write = "written"

\* ResilienceManager.check_system_health
check_system_health(p) ==
    [disk_space |-> check_disk_space(p), memory |-> check_memory(p),
     dependencies |-> check_dependencies(p), network |-> check_network(p),
     permissions |-> check_permissions(p)]

\* all(health.values())
AllOf(h) == \A k \in DOMAIN h : h[k]

\* EnhancedAPIHandler._handle_health
HandleHealthEnhanced ==
    /\ probes # NoProbes
    /\ hresp = NoResponse
    /\ hresp' = [server |-> "enhanced",
                 status |-> IF AllOf(check_system_health(probes))
                            THEN "healthy" ELSE "unhealthy"]
    /\ UNCHANGED probes
    /\ UNCHANGED outsideHealth

\* A2AHandler.do_GET, path /health
HandleHealthMain ==
    /\ probes # NoProbes
    /\ hresp = NoResponse
    /\ hresp' = [server |-> "main", status |-> "healthy"]
    /\ UNCHANGED probes
    /\ UNCHANGED outsideHealth

InitHealth ==
    /\ clock = 0
    /\ srcBytes = 1
    /\ tplBytes = NoFile
    /\ installed = Engines
    /\ pandocPresent = TRUE
    /\ disk = {}
    /\ cache = <<>>
    /\ dirty = FALSE
    /\ events = 0
    /\ pc = "idle"
    /\ job = NoJob
    /\ last = NoLast
    /\ METRICS = InitMetrics
    /\ jobsRun = 0
    /\ BatchIdle
    /\ MainIdle
    /\ EnhIdle
    /\ SnapIdle
    /\ probes \in [disk : DiskProbes, memory : MemoryProbes, pandoc : BOOLEAN,
                    network : NetworkProbes, write : WriteProbes]
    /\ hresp = NoResponse
    /\ DepIdle
    /\ SynIdle
    /\ SelIdle
    /\ LockIdle
    /\ PidIdle
    /\ CacheIdle
    /\ ParIdle

NextHealth ==
    \/ HandleHealthEnhanced
    \/ HandleHealthMain

SpecHealth == InitHealth /\ [][NextHealth]_vars

\* ---- dependency_report ---------------------------------------------------------------
\* the document classes, packages and font families templates declare
ClassNames == {"none", "moderncv"}
PackageNames == {"biblatex", "fontspec"}
FontNames == {"Lato"}

\* kpsewhich: not installed, answering, or ending without an answer (non-zero
\* exit status, timeout)
KpseStates == {"absent", "works", "fails"}
\* fc-list: not installed, failing, listing the family, not listing it
FcStates == {"absent", "fails", "lists", "lacks"}

\* the files kpsewhich can find on the host
TexFiles == {"moderncv.cls", "biblatex.sty", "fontspec.sty"}
Cls(c) == IF c = "moderncv" THEN "moderncv.cls" ELSE "none"
Sty(p) == IF p = "biblatex" THEN "biblatex.sty" ELSE "fontspec.sty"

\* kpse_exists: False without kpsewhich, else ok and out.strip() != ""
kpse_exists(h, texname) == h.kpsewhich = "works" /\ texname \in h.texmf

\* fc_has_font: True when fc-list is not installed or fails
fc_has_font(h, fam) == h.fc_list # "lacks"

\* any(p.lower() == "biblatex" ...), any(p.lower() == "fontspec" ...)
uses_biblatex(r) == "biblatex" \in r.pkgs
fontspec(r) == "fontspec" \in r.pkgs

\* the missing list of dependency_report
Missing(r, h) ==
    (IF r.class_name # "none" /\ ~kpse_exists(h, Cls(r.class_name))
     THEN {"class"} ELSE {})
    \cup {p \in r.pkgs : ~kpse_exists(h, Sty(p))}
    \cup (IF uses_biblatex(r) /\ ~h.biber THEN {"biber"} ELSE {})
    \cup (IF r.uses_bibtex_style /\ ~h.bibtex THEN {"bibtex"} ELSE {})

\* the notes list of dependency_report
Notes(r, h) ==
    IF fontspec(r)
    THEN (IF ~h.unicode_engine THEN {"engine"} ELSE {})
         \cup {f \in r.fonts : ~fc_has_font(h, f)}
    ELSE {}

\* dependency_report: (ok, text), the text kept as its missing and notes lists
dependency_report(r, h) ==
    IF ~r.syntax
    THEN [ok |-> FALSE, missing |-> {}, notes |-> {}, stage |-> "syntax"]
    ELSE IF h.kpsewhich = "absent"
    THEN [ok |-> FALSE, missing |-> {}, notes |-> {}, stage |-> "kpsewhich"]
    ELSE [ok |-> Missing(r, h) = {}, missing |-> Missing(r, h),
          notes |-> Notes(r, h), stage |-> "analysis"]

\* dependency_report(template_file) is called
DependencyReport ==
    /\ requires # NoRequires
    /\ report = NoReport
    /\ report' = dependency_report(requires, texlive)
    /\ UNCHANGED <<requires, texlive>>
    /\ UNCHANGED outsideDep

\* a template and a host; font families are collected only with fontspec:
\* FONTDEF_RE.findall(s) if fontspec else []
InitDep ==
    /\ clock = 0
    /\ srcBytes = 1
    /\ tplBytes = NoFile
    /\ installed = Engines
    /\ pandocPresent = TRUE
    /\ disk = {}
    /\ cache = <<>>
    /\ dirty = FALSE
    /\ events = 0
    /\ pc = "idle"
    /\ job = NoJob
    /\ last = NoLast
    /\ METRICS = InitMetrics
    /\ jobsRun = 0
    /\ BatchIdle
    /\ MainIdle
    /\ EnhIdle
    /\ SnapIdle
    /\ HealthIdle
    /\ requires \in [syntax : BOOLEAN, class_name : ClassNames,
                      pkgs : SUBSET PackageNames, uses_bibtex_style : BOOLEAN,
                      fonts : SUBSET FontNames]
    /\ fontspec(requires) \/ requires.fonts = {}
    /\ texlive \in [kpsewhich : KpseStates, texmf : SUBSET TexFiles,
                     biber : BOOLEAN, bibtex : BOOLEAN, unicode_engine : BOOLEAN,
                     fc_list : FcStates]
    /\ report = NoReport
    /\ SynIdle
    /\ SelIdle
    /\ LockIdle
    /\ PidIdle
    /\ CacheIdle
    /\ ParIdle

NextDep == DependencyReport

SpecDep == InitDep /\ [][NextDep]_vars

\* ---- validate_template_syntax ------------------------------------------------------
\* the pieces of text the checks of validate_template_syntax tell apart
Tokens == {"{", "}", "\\documentclass", "\\begin{document}", "\\end{document}",
           "\\usepackage{"}

\* the number of "{" and of "}" in a piece
Opens(tok) == IF tok \in {"{", "\\begin{document}", "\\end{document}", "\\usepackage{"}
              THEN 1 ELSE 0
Closes(tok) == IF tok \in {"}", "\\begin{document}", "\\end{document}"} THEN 1 ELSE 0

\* content.count("{"), content.count("}")
RECURSIVE CountOpens(_)
CountOpens(content) ==
    IF content = <<>> THEN 0 ELSE Opens(Head(content)) + CountOpens(Tail(content))
RECURSIVE CountCloses(_)
CountCloses(content) ==
    IF content = <<>> THEN 0 ELSE Closes(Head(content)) + CountCloses(Tail(content))

\* tok in content
Contains(content, tok) == \E i \in 1..Len(content) : content[i] = tok

\* content.find(tok), for a tok that occurs
Find(content, tok) ==
    CHOOSE i \in 1..Len(content) :
        content[i] = tok /\ \A j \in 1..(i - 1) : content[j] # tok

\* "\\usepackage{" in content and "}" not in content[content.find("\\usepackage{"):]
MalformedUsepackage(content) ==
    /\ Contains(content, "\\usepackage{")
    /\ \A j \in Find(content, "\\usepackage{")..Len(content) : Closes(content[j]) = 0

\* the issues list without the \usepackage check
Issues_fourChecks(content) ==
    (IF CountOpens(content) - CountCloses(content) # 0 THEN {"braces"} ELSE {})
    \cup (IF ~Contains(content, "\\documentclass") THEN {"documentclass"} ELSE {})
    \cup (IF ~Contains(content, "\\begin{document}")
              /\ Contains(content, "\\documentclass") THEN {"begin"} ELSE {})
    \cup (IF ~Contains(content, "\\end{document}")
              /\ Contains(content, "\\begin{document}") THEN {"end"} ELSE {})

\* the issues list of validate_template_syntax
Issues(content) ==
    (IF CountOpens(content) - CountCloses(content) # 0 THEN {"braces"} ELSE {})
    \cup (IF ~Contains(content, "\\documentclass") THEN {"documentclass"} ELSE {})
    \cup (IF ~Contains(content, "\\begin{document}")
              /\ Contains(content, "\\documentclass") THEN {"begin"} ELSE {})
    \cup (IF ~Contains(content, "\\end{document}")
              /\ Contains(content, "\\begin{document}") THEN {"end"} ELSE {})
    \cup (IF MalformedUsepackage(content) THEN {"usepackage"} ELSE {})

\* validate_template_syntax: (ok, message)
validate_template_syntax(f) ==
    IF f.kind = "absent"
    THEN [ok |-> FALSE, reason |-> "not found", issues |-> {}]
    ELSE IF f.kind = "undecodable"
    THEN [ok |-> FALSE, reason |-> "encoding error", issues |-> {}]
    ELSE IF f.kind = "unreadable"
    THEN [ok |-> FALSE, reason |-> "Error reading", issues |-> {}]
    ELSE IF Issues(f.content) # {}
    THEN [ok |-> FALSE, reason |-> "syntax issues", issues |-> Issues(f.content)]
    ELSE [ok |-> TRUE, reason |-> "passed", issues |-> {}]

\* the texts of at most n pieces
RECURSIVE Texts(_)
Texts(n) ==
    IF n = 0 THEN {<<>>}
    ELSE Texts(n - 1) \cup {Append(c, tok) : c \in Texts(n - 1), tok \in Tokens}

\* validate_template_syntax(tex_path) is called
ValidateTemplate ==
    /\ tex_path # NoTexFile
    /\ verdict = NoVerdict
    /\ verdict' = validate_template_syntax(tex_path)
    /\ UNCHANGED tex_path
    /\ UNCHANGED outsideSyn

\* the path names no file, a file that is not UTF-8, a file open() fails on,
\* or a file with a text
InitSyn ==
    /\ clock = 0
    /\ srcBytes = 1
    /\ tplBytes = NoFile
    /\ installed = Engines
    /\ pandocPresent = TRUE
    /\ disk = {}
    /\ cache = <<>>
    /\ dirty = FALSE
    /\ events = 0
    /\ pc = "idle"
    /\ job = NoJob
    /\ last = NoLast
    /\ METRICS = InitMetrics
    /\ jobsRun = 0
    /\ BatchIdle
    /\ MainIdle
    /\ EnhIdle
    /\ SnapIdle
    /\ HealthIdle
    /\ DepIdle
    /\ tex_path \in {[kind |-> k, content |-> <<>>] :
                        k \in {"absent", "undecodable", "unreadable"}}
                    \cup {[kind |-> "text", content |-> c] : c \in Texts(MaxTokens)}
    /\ verdict = NoVerdict
    /\ SelIdle
    /\ LockIdle
    /\ PidIdle
    /\ CacheIdle
    /\ ParIdle

NextSyn == ValidateTemplate

SpecSyn == InitSyn /\ [][NextSyn]_vars

\* ---- _select_pdf_engine ---------------------------------------------------------
\* the source file: ASCII text, UTF-8 text with characters above 127, text
\* with such characters in an encoding that is not UTF-8, a file open() fails on
SourceKinds == {"ascii", "utf8", "latin1", "unreadable"}
\* template_path: None or no file, a file without and with "fontspec" in it,
\* a file that cannot be read
TemplateKinds == {"absent", "plain", "fontspec", "unreadable"}

\* has_unicode: stays False when the read raises
has_unicode(src) == src = "utf8"
\* uses_fontspec: stays False without a template and when the read raises
uses_fontspec(tpl) == tpl = "fontspec"

\* preferred_engines
preferred_engines(src, tpl) ==
    IF uses_fontspec(tpl) \/ has_unicode(src)
    THEN <<"xelatex", "lualatex", "pdflatex">>
    ELSE <<"pdflatex", "xelatex", "lualatex">>

\* the first engine of the list shutil.which finds, or None
FirstInstalled(order, inst) ==
    IF \E i \in 1..Len(order) : order[i] \in inst
    THEN order[CHOOSE i \in 1..Len(order) :
                  order[i] \in inst /\ \A j \in 1..(i - 1) : order[j] \notin inst]
    ELSE "None"

\* EnhancedConverter._select_pdf_engine
select_pdf_engine(in) == FirstInstalled(preferred_engines(in.source, in.template), in.which)

\* the engine of the first PDF strategy of convert_one for the same input
FirstOfChain(in) ==
    LET ch == Chain(in.template # "absent", in.which)
    IN  IF ch[1].ext = "pdf" THEN ch[1].engine ELSE "None"

\* both entry points are asked for the same input
SelectEngine ==
    /\ selInput # NoSelInput
    /\ selected = NoSelection
    /\ selected' = [enhanced |-> select_pdf_engine(selInput),
                    convert_one |-> FirstOfChain(selInput)]
    /\ UNCHANGED selInput
    /\ UNCHANGED outsideSel

InitSel ==
    /\ clock = 0
    /\ srcBytes = 1
    /\ tplBytes = NoFile
    /\ installed = Engines
    /\ pandocPresent = TRUE
    /\ disk = {}
    /\ cache = <<>>
    /\ dirty = FALSE
    /\ events = 0
    /\ pc = "idle"
    /\ job = NoJob
    /\ last = NoLast
    /\ METRICS = InitMetrics
    /\ jobsRun = 0
    /\ BatchIdle
    /\ MainIdle
    /\ EnhIdle
    /\ SnapIdle
    /\ HealthIdle
    /\ DepIdle
    /\ SynIdle
    /\ selInput \in [source : SourceKinds, template : TemplateKinds,
                      which : SUBSET Engines]
    /\ selected = NoSelection
    /\ LockIdle
    /\ PidIdle
    /\ CacheIdle
    /\ ParIdle

NextSel == SelectEngine

SpecSel == InitSel /\ [][NextSel]_vars

\* ---- AgentMetrics under concurrent threads -------------------------------------------
\* threading.Lock.acquire without the lock
CanAcquire_lockless(holder) == TRUE

\* threading.Lock.acquire: only a free lock is taken
CanAcquire(holder) == holder = NoHolder

\* the amounts of the calls: increment('active_jobs'), increment('active_jobs', -1)
\* and _metrics['engine_usage'][engine] += 1
Amounts(c) == IF c = "active_jobs" THEN {1, -1} ELSE {1}

\* "with self._lock:" of increment, "with METRICS._lock:" of try_pandoc_pdf
Acquire(t) ==
    /\ thr[t].at = "idle"
    /\ thr[t].calls < MaxCalls
    /\ CanAcquire(lock)
    /\ \E c \in Cells : \E a \in Amounts(c) :
           thr' = [thr EXCEPT ![t].at = "held", ![t].cell = c, ![t].amount = a]
    /\ lock' = t
    /\ UNCHANGED <<cells, applied>>
    /\ UNCHANGED outsideLock

\* the read of "self._metrics[metric] += value"
Load(t) ==
    /\ thr[t].at = "held"
    /\ thr' = [thr EXCEPT ![t].at = "loaded", ![t].reg = cells[thr[t].cell]]
    /\ UNCHANGED <<lock, cells, applied>>
    /\ UNCHANGED outsideLock

\* the write of "self._metrics[metric] += value"
Store(t) ==
    /\ thr[t].at = "loaded"
    /\ cells' = [cells EXCEPT ![thr[t].cell] = thr[t].reg + thr[t].amount]
    /\ applied' = [applied EXCEPT ![thr[t].cell] = @ + thr[t].amount]
    /\ thr' = [thr EXCEPT ![t].at = "stored"]
    /\ UNCHANGED lock
    /\ UNCHANGED outsideLock

\* the end of the with block
Release(t) ==
    /\ thr[t].at = "stored"
    /\ lock' = NoHolder
    /\ thr' = [thr EXCEPT ![t].at = "idle", ![t].calls = @ + 1]
    /\ UNCHANGED <<cells, applied>>
    /\ UNCHANGED outsideLock

InitLock ==
    /\ clock = 0
    /\ srcBytes = 1
    /\ tplBytes = NoFile
    /\ installed = Engines
    /\ pandocPresent = TRUE
    /\ disk = {}
    /\ cache = <<>>
    /\ dirty = FALSE
    /\ events = 0
    /\ pc = "idle"
    /\ job = NoJob
    /\ last = NoLast
    /\ METRICS = InitMetrics
    /\ jobsRun = 0
    /\ BatchIdle
    /\ MainIdle
    /\ EnhIdle
    /\ SnapIdle
    /\ HealthIdle
    /\ DepIdle
    /\ SynIdle
    /\ SelIdle
    /\ LockIdle
    /\ PidIdle
    /\ CacheIdle
    /\ ParIdle

NextLock == \E t \in Threads : Acquire(t) \/ Load(t) \/ Store(t) \/ Release(t)

SpecLock == InitLock /\ [][NextLock]_vars

\* ---- pid_file_manager in two processes -------------------------------------------------
\* the PID file holds: nothing ("absent": no file), the empty text of a file
\* opened for writing and not yet written, text that is no number, the id of
\* a process that is gone, or the id of daemon 1 or 2
IsLive(content) == content \in Daemons

Goto(d, where) == dproc' = [dproc EXCEPT ![d].at = where]

\* os.path.exists(pidfile_path)
PidExists(d) ==
    /\ dproc[d].at = "exists"
    /\ Goto(d, IF pidfile = "absent" THEN "create" ELSE "read")
    /\ UNCHANGED pidfile
    /\ UNCHANGED outsidePid

\* old_pid = int(f.read().strip()); FileNotFoundError and ValueError are passed
PidRead(d) ==
    /\ dproc[d].at = "read"
    /\ IF pidfile \in {"absent", "empty", "garbage"}
       THEN Goto(d, "create")
       ELSE dproc' = [dproc EXCEPT ![d].at = "kill", ![d].old_pid = pidfile]
    /\ UNCHANGED pidfile
    /\ UNCHANGED outsidePid

\* os.kill(old_pid, 0): SystemExit(3) when the process exists
PidKill(d) ==
    /\ dproc[d].at = "kill"
    /\ Goto(d, IF IsLive(dproc[d].old_pid) THEN "aborted" ELSE "remove")
    /\ UNCHANGED pidfile
    /\ UNCHANGED outsidePid

\* os.remove(pidfile_path) of a stale file; FileNotFoundError is passed
PidRemove(d) ==
    /\ dproc[d].at = "remove"
    /\ pidfile' = "absent"
    /\ Goto(d, "create")
    /\ UNCHANGED outsidePid

\* open(pidfile_path, 'w'): the file is created or truncated
PidOpen(d) ==
    /\ dproc[d].at = "create"
    /\ pidfile' = "empty"
    /\ Goto(d, "write")
    /\ UNCHANGED outsidePid

\* f.write(str(pid)) and the end of the with block; then the yield
PidWrite(d) ==
    /\ dproc[d].at = "write"
    /\ pidfile' = d
    /\ Goto(d, "passed")
    /\ UNCHANGED outsidePid

InitPid ==
    /\ clock = 0
    /\ srcBytes = 1
    /\ tplBytes = NoFile
    /\ installed = Engines
    /\ pandocPresent = TRUE
    /\ disk = {}
    /\ cache = <<>>
    /\ dirty = FALSE
    /\ events = 0
    /\ pc = "idle"
    /\ job = NoJob
    /\ last = NoLast
    /\ METRICS = InitMetrics
    /\ jobsRun = 0
    /\ BatchIdle
    /\ MainIdle
    /\ EnhIdle
    /\ SnapIdle
    /\ HealthIdle
    /\ DepIdle
    /\ SynIdle
    /\ SelIdle
    /\ LockIdle
    /\ pidfile \in {"absent", "garbage", "stale"}
    /\ dproc = [d \in Daemons |-> [at |-> "exists", old_pid |-> NoOldPid]]
    /\ CacheIdle
    /\ ParIdle

NextPid ==
    \E d \in Daemons :
        \/ PidExists(d)
        \/ PidRead(d)
        \/ PidKill(d)
        \/ PidRemove(d)
        \/ PidOpen(d)
        \/ PidWrite(d)

SpecPid == InitPid /\ [][NextPid]_vars

\* ---- already_done and mark_done under concurrent threads --------------------------------
\* the artifact path of convert_one, f"{epoch()}.{stem}.pdf", in blocks of four
\* characters, for the second 10 and the stems of a.md, abcde.md and a.pdf.md
PdfPathBlocks(stem) ==
    IF stem = "a" THEN <<"10.a", ".pdf">>
    ELSE IF stem = "abcde" THEN <<"10.a", "bcde", ".pdf">>
    ELSE <<"10.a", ".pdf", ".pdf">>

\* compute_job_key: a.md and abcde.md have the same content, a.pdf.md another
StemsOf(k) == IF k = "K1" THEN {"a", "abcde"} ELSE {"a.pdf"}

\* a write of text at offset 0 of a file that holds old
WriteAt0(old, text) ==
    IF Len(old) > Len(text) THEN text \o SubSeq(old, Len(text) + 1, Len(old)) ELSE text

\* mark_done: open(..., "w") creates or truncates <key>.done
MarkOpen(t) ==
    /\ caller[t].at = "idle"
    /\ caller[t].calls < MaxCalls
    /\ \E k \in JobKeys : \E st \in StemsOf(k) :
           /\ PdfPathBlocks(st) \in artifacts
           /\ caller' = [caller EXCEPT ![t].at = "opened", ![t].key = k,
                                        ![t].path = PdfPathBlocks(st),
                                        ![t].prior = NoCaller.prior]
           /\ done_files' = [done_files EXCEPT ![k] = <<>>]
    /\ UNCHANGED <<artifacts, recorded>>
    /\ UNCHANGED outsideCache

\* mark_done: f.write(artifact_path) reaches the file when the with block ends
MarkWrite(t) ==
    /\ caller[t].at = "opened"
    /\ done_files' = [done_files EXCEPT
                         ![caller[t].key] = WriteAt0(@, caller[t].path)]
    /\ recorded' = recorded \cup {<<caller[t].key, caller[t].path>>}
    /\ caller' = [caller EXCEPT ![t].at = "idle", ![t].calls = @ + 1]
    /\ UNCHANGED artifacts
    /\ UNCHANGED outsideCache

\* already_done
already_done_text(text) ==
    IF text = NoDone \/ text = <<>> THEN Miss ELSE text

\* the skip check of convert_one: prior and os.path.isfile(prior)
SkipCheck(t) ==
    /\ caller[t].at = "idle"
    /\ caller[t].calls < MaxCalls
    /\ \E k \in JobKeys :
           LET prior == already_done_text(done_files[k])
           IN  caller' = [caller EXCEPT
                            ![t].key = k, ![t].path = <<>>, ![t].calls = @ + 1,
                            ![t].prior = IF prior # Miss /\ prior \in artifacts
                                         THEN prior ELSE Miss]
    /\ UNCHANGED <<done_files, artifacts, recorded>>
    /\ UNCHANGED outsideCache

InitCache ==
    /\ clock = 0
    /\ srcBytes = 1
    /\ tplBytes = NoFile
    /\ installed = Engines
    /\ pandocPresent = TRUE
    /\ disk = {}
    /\ cache = <<>>
    /\ dirty = FALSE
    /\ events = 0
    /\ pc = "idle"
    /\ job = NoJob
    /\ last = NoLast
    /\ METRICS = InitMetrics
    /\ jobsRun = 0
    /\ BatchIdle
    /\ MainIdle
    /\ EnhIdle
    /\ SnapIdle
    /\ HealthIdle
    /\ DepIdle
    /\ SynIdle
    /\ SelIdle
    /\ LockIdle
    /\ PidIdle
    /\ done_files = [k \in JobKeys |-> NoDone]
    /\ artifacts \in SUBSET {PdfPathBlocks(st) : st \in {"a", "abcde", "a.pdf"}}
    /\ caller = [t \in Threads |-> NoCaller]
    /\ recorded = {}
    /\ ParIdle

NextCache == \E t \in Threads : MarkOpen(t) \/ MarkWrite(t) \/ SkipCheck(t)

SpecCache == InitCache /\ [][NextCache]_vars

\* ---- convert_one and convert_file in concurrent threads -----------------------------------
\* the input files: "a b.md", "a_b.md", "a_b.MD" and "c.md"; list_markdown
\* lists every name whose lower-case form ends in ".md"
Names ==
    {[base |-> <<"a", " ", "b">>, ext |-> "md"], [base |-> <<"a", "_", "b">>, ext |-> "md"],
     [base |-> <<"a", "_", "b">>, ext |-> "MD"], [base |-> <<"c">>, ext |-> "md"]}

\* the bytes of each input: "a b.md" and "a_b.md" are copies of each other,
\* and so are "a_b.MD" and "c.md"
ContentOf(md) == IF md.ext = "md" /\ Len(md.base) = 3 THEN 1 ELSE 2

\* c.isalnum() or c in "-_."
SafeChars == {"a", "b", "c", "-", "_", "."}

\* safe_stem: the name without its extension, every other character as "_"
safe_stem(md) ==
    [i \in 1..Len(md.base) |-> IF md.base[i] \in SafeChars THEN md.base[i] ELSE "_"]

\* f"{epoch()}.{stem}.log" and f"{epoch()}.{stem}.pdf" / ".docx"
LogFile(t, stem) == [t |-> t, stem |-> stem]
ArtifactFile(t, stem, ext) == [t |-> t, stem |-> stem, ext |-> ext]

\* the finally block that gives the gauge nothing back
LeaveJob_forgotten(m) == m

\* finally: increment('active_jobs', -1)
LeaveJob(m) == Inc(m, "active_jobs", -1)

\* prior and os.path.isfile(prior)
CachedHit(k) == jobcache[k] # NoArtifact /\ \E f \in outdir : f.path = jobcache[k]

\* log_append(logf, ...) by the job of md
Appended(logf, md) == logsdir \cup {[path |-> logf, by |-> md]}

\* pandoc writes the artifact of md at path
Written(path, md) == {f \in outdir : f.path # path} \cup {[path |-> path, by |-> md]}

SetCall(c, r) == active' = [active EXCEPT ![c] = r]

\* a thread calls convert_one, or convert_file of enhanced_main.py, and the
\* call raises active_jobs
EnterJob(c) ==
    /\ active[c].at = "none"
    /\ \/ \E md \in Names, force \in BOOLEAN :
             /\ SetCall(c, [NoCall EXCEPT !.at = "entered", !.fn = "convert_one",
                                           !.md = md, !.force = force])
             /\ METRICS' = Inc(METRICS, "active_jobs", 1)
             /\ UNCHANGED emetrics
       \/ /\ SetCall(c, [NoCall EXCEPT !.at = "entered", !.fn = "convert_file"])
          /\ emetrics' = EIncrement(emetrics, "active_jobs").m
          /\ UNCHANGED METRICS
    /\ UNCHANGED <<wall, jobcache, outdir, logsdir>>
    /\ UNCHANGED <<outsidePar, enhRest>>

\* convert_one, lines 481-505: directories, log path, job key, skip check,
\* disk space
PrepareJob(c) ==
    /\ active[c].at = "entered"
    /\ active[c].fn = "convert_one"
    /\ LET md == active[c].md
           logf == LogFile(wall, safe_stem(md))
           job_key == ContentOf(md)
           keyed == [active[c] EXCEPT !.logf = logf, !.key = job_key, !.at = "finally"]
       IN  \/ \* ensure_host_directories failed
              /\ SetCall(c, [active[c] EXCEPT !.status = "FAIL", !.at = "finally"])
              /\ METRICS' = Inc(METRICS, "files_failed_total", 1)
              /\ UNCHANGED logsdir
           \/ /\ ~active[c].force /\ CachedHit(job_key)
              /\ SetCall(c, [keyed EXCEPT !.status = "SKIP", !.artifact = jobcache[job_key]])
              /\ logsdir' = Appended(logf, md)
              /\ METRICS' = Inc(METRICS, "files_skipped_total", 1)
           \/ /\ ~(~active[c].force /\ CachedHit(job_key))
              /\ \/ \* validate_disk_space failed
                    /\ SetCall(c, [keyed EXCEPT !.status = "FAIL"])
                    /\ logsdir' = Appended(logf, md)
                    /\ METRICS' = Inc(METRICS, "files_failed_total", 1)
                 \/ /\ SetCall(c, [keyed EXCEPT !.at = "chain"])
                    /\ UNCHANGED <<logsdir, METRICS>>
    /\ UNCHANGED <<wall, jobcache, outdir, emetrics>>
    /\ UNCHANGED <<outsidePar, enhRest>>

\* convert_one, lines 518-566: the strategies; how they end is the host's choice
ChainJob(c) ==
    /\ active[c].at = "chain"
    /\ LET md == active[c].md
           logf == active[c].logf
           ran == [active[c] EXCEPT !.ranChain = TRUE, !.at = "finally"]
       IN  \/ \E ext \in {"pdf", "docx"} :
                LET out == ArtifactFile(wall, safe_stem(md), ext)
                IN  /\ outdir' = Written(out, md)
                    /\ jobcache' = [jobcache EXCEPT ![active[c].key] = out]
                    /\ SetCall(c, [ran EXCEPT !.artifact = out,
                                              !.status = IF ext = "pdf" THEN "OK"
                                                         ELSE "DEGRADED"])
                    /\ METRICS' = Inc(METRICS, IF ext = "pdf" THEN "files_processed_total"
                                               ELSE "files_degraded_total", 1)
                    /\ logsdir' = Appended(logf, md)
           \/ \* every strategy failed
              /\ SetCall(c, [ran EXCEPT !.status = "FAIL"])
              /\ METRICS' = Inc(METRICS, "files_failed_total", 1)
              /\ logsdir' = Appended(logf, md)
              /\ UNCHANGED <<jobcache, outdir>>
           \/ \* a strategy timed out and run() raised
              /\ SetCall(c, [ran EXCEPT !.status = "RAISED"])
              /\ UNCHANGED <<METRICS, logsdir, jobcache, outdir>>
    /\ UNCHANGED <<wall, emetrics>>
    /\ UNCHANGED <<outsidePar, enhRest>>

\* convert_file, lines 271-306: increment("format_usage") raises in the try
\* block, increment("error_types") raises in the except block
BodyFile(c) ==
    /\ active[c].at = "entered"
    /\ active[c].fn = "convert_file"
    /\ LET first == EIncrement(emetrics, "format_usage")
           failed == EIncrement(first.m, "files_failed_total").m
           second == EIncrement(failed, "error_types")
       IN  /\ first.raised /\ second.raised
           /\ emetrics' = second.m
    /\ SetCall(c, [active[c] EXCEPT !.status = "RAISED", !.at = "finally"])
    /\ UNCHANGED <<wall, jobcache, outdir, logsdir, METRICS>>
    /\ UNCHANGED <<outsidePar, enhRest>>

\* the finally block of convert_one and of convert_file; the call is over
FinallyJob(c) ==
    /\ active[c].at = "finally"
    /\ IF active[c].fn = "convert_one"
       THEN METRICS' = LeaveJob(METRICS) /\ UNCHANGED emetrics
       ELSE emetrics' = LeaveJob(emetrics) /\ UNCHANGED METRICS
    /\ SetCall(c, [active[c] EXCEPT !.at = "returned"])
    /\ UNCHANGED <<wall, jobcache, outdir, logsdir>>
    /\ UNCHANGED <<outsidePar, enhRest>>

\* a second passes
TickPar ==
    /\ wall < MaxEvents
    /\ \E c \in Threads : active[c].at \notin {"none", "returned"}
    /\ wall' = wall + 1
    /\ UNCHANGED <<active, jobcache, outdir, logsdir, METRICS, emetrics>>
    /\ UNCHANGED <<outsidePar, enhRest>>

InitPar ==
    /\ clock = 0
    /\ srcBytes = 1
    /\ tplBytes = NoFile
    /\ installed = Engines
    /\ pandocPresent = TRUE
    /\ disk = {}
    /\ cache = <<>>
    /\ dirty = FALSE
    /\ events = 0
    /\ pc = "idle"
    /\ job = NoJob
    /\ last = NoLast
    /\ METRICS = InitMetrics
    /\ jobsRun = 0
    /\ BatchIdle
    /\ MainIdle
    /\ EnhIdle
    /\ SnapIdle
    /\ HealthIdle
    /\ DepIdle
    /\ SynIdle
    /\ SelIdle
    /\ LockIdle
    /\ PidIdle
    /\ CacheIdle
    /\ ParIdle

NextPar ==
    \/ \E c \in Threads :
          \/ EnterJob(c)
          \/ PrepareJob(c)
          \/ ChainJob(c)
          \/ BodyFile(c)
          \/ FinallyJob(c)
    \/ TickPar

SpecPar == InitPar /\ [][NextPar]_vars

\* ---- properties ----------------------------------------------------------------
\* a convert_one call starts
Starts == pc = "idle" /\ jobsRun' = jobsRun + 1

\* what batch makes of a call that is over: an escaping exception counts as FAIL
Reported(j) == IF j.raised THEN "FAIL" ELSE j.status

\* C1: for a readable source, and a template that is absent or readable, the
\* job key depends on the two contents only: two consecutive calls, whatever
\* the seconds they run in, compute the same key if and only if neither the
\* source content nor the template content (or its absence) differs.
C1_KeyDeterminism ==
    [][(Starts /\ last.keyed /\ job'.preflight # "dirs"
            /\ last.src \in Contents /\ job'.src \in Contents)
         => ((job'.key = last.key) <=> (job'.src = last.src /\ job'.tpl = last.tpl))]_vars

\* a call in a later second finds the entry an earlier call recorded
C1_Witness ==
    /\ pc = "done"
    /\ job.status = "SKIP"
    /\ job.src \in Contents
    /\ job.logf > job.artifact.t

\* C2 as stated: once the artifact an entry records is deleted externally,
\* already_done returns a miss for that entry, never the path that is gone.
C2_LookupNeverStale ==
    [][(disk' # disk /\ disk' \subseteq disk)
         => \A k \in DOMAIN cache :
               (cache[k] \in disk \ disk') => already_done(cache', k) = NoPath]_vars

\* C2: already_done returns what the entry records, on disk or not; it is
\* convert_one that takes an entry whose artifact is gone for a miss, so a
\* call that returns SKIP was not forced and returns the recorded artifact,
\* which exists.
C2_SkipNeverDangling ==
    (pc = "done" /\ job.status = "SKIP")
        => /\ ~job.force
           /\ job.artifact # NoPath
           /\ job.artifact \in disk
           /\ job.artifact = already_done(cache, job.key)

\* an unforced call went past the skip check with a dangling entry for its key
C2_Witness ==
    /\ pc = "chain"
    /\ ~job.force
    /\ ~dirty
    /\ job.key \in DOMAIN cache
    /\ already_done(cache, job.key) \notin disk

C4_FallbackMonotone ==
    (pc = "done" /\ job.preflight = "none" /\ job.wouldSucceed)
        => Reported(job) # "FAIL"

C6_PreflightGate ==
    (pc = "done" /\ ~pandocPresent)
        => /\ job.status = "FAIL"
           /\ job.nAttempts = 0
           /\ \A i \in 1..Len(job.log) : job.log[i] \notin {"CMD", "DOCX"}

\* C7: a call that is no cache hit and finds less free space than the minimum
\* returns FAIL at once: no artifact, no strategy attempted, disk and cache
\* as they were.
C7_LowDisk ==
    [][(Starts /\ job'.free \in 0..(MinFreeMb - 1))
         => /\ pc' = "done"
            /\ job'.status = "FAIL"
            /\ job'.artifact = NoPath
            /\ job'.nAttempts = 0
            /\ disk' = disk
            /\ cache' = cache]_vars

\* a call with a recorded entry (forced, or its artifact gone) failed on the
\* disk check
C7_Witness ==
    /\ pc = "done"
    /\ job.free = MinFreeMb - 1
    /\ job.status = "FAIL"
    /\ job.key \in DOMAIN cache

\* C8 as stated: no exception escapes a call.
C8_NoEscape == pc = "done" => ~job.raised

\* C9: every file of a batch contributes exactly one outcome: what the result
\* loop recorded so far adds up to the files it went through, at the return
\* to all of them, and each recorded outcome is that file's own result, FAIL
\* standing for its exception or its timeout.
C9_OneOutcomePerFile ==
    /\ summary.OK + summary.DEGRADED + summary.FAIL + summary.SKIP = Len(got)
    /\ Len(got) <= files
    /\ (bpc = "returned") => (Len(got) = files)
    /\ \A i \in 1..Len(got) :
         /\ (got[i].how = "result") => (fut[i] = got[i].st)
         /\ (got[i].how = "except") => (fut[i] = "RAISE" /\ got[i].st = "FAIL")
         /\ (got[i].how = "timeout") => (got[i].st = "FAIL")

\* a batch returned after one file raised, one timed out and a later one was
\* converted
C9_Witness ==
    /\ bpc = "returned"
    /\ files >= 3
    /\ got[1].how = "except"
    /\ got[2].how = "timeout"
    /\ got[files].st = "OK"

\* C10: batch returns 0 or 2; 2 exactly when some file of the cycle was
\* recorded as FAIL, and 0 when no file was found.
C10_ExitStatus ==
    (bpc = "returned")
        => /\ exitCode \in {0, 2}
           /\ (exitCode = 2) <=> (\E i \in 1..Len(got) : got[i].st = "FAIL")
           /\ (files = 0) => (exitCode = 0)

\* a batch returned 2 with one file failed and another degraded
C10_Witness ==
    /\ bpc = "returned"
    /\ exitCode = 2
    /\ \E i \in 1..Len(got) : got[i].st = "DEGRADED"
    /\ \E i \in 1..Len(got) : got[i] = [st |-> "FAIL", how |-> "result"]

\* every call of the cycle was handed to a worker
AllDispatched == \A i \in 1..files : fut[i] # "queued"

\* C21: at every moment of a batch cycle over n files at most min(4, n)
\* convert_one calls are running, and every file of the cycle is eventually
\* handed to a worker.
C21_BoundedConcurrency ==
    /\ [](Cardinality(Running) <= Min(4, files))
    /\ (bpc = "collect") ~> AllDispatched

\* four calls are running and the fifth file waits for a worker
C21_Witness ==
    /\ bpc = "collect"
    /\ files = 5
    /\ Cardinality(Running) = 4
    /\ fut[5] = "queued"

\* a convert_one call returned a triple
Returned == pc = "done" /\ ~job.raised

\* C14 as stated: every return of convert_one carries a log path, and the
\* log file holds at least one entry.
C14_LogAlways ==
    Returned => (job.logf # NoLog /\ Len(job.log) >= 1)

\* C15: a returned artifact path is non-null exactly for OK, DEGRADED and
\* SKIP, null for FAIL, and a non-null path names a file that exists when
\* the call returns.
C15_ArtifactIffSuccess ==
    Returned
        => /\ job.status \in {"OK", "DEGRADED", "SKIP", "FAIL"}
           /\ (job.artifact # NoPath) <=> (job.status \in {"OK", "DEGRADED", "SKIP"})
           /\ (job.artifact # NoPath) => (job.artifact \in disk)

\* after a failed first call the second, forced, returned the PDF it rendered
C15_Witness ==
    /\ Returned
    /\ job.force
    /\ job.status = "OK"
    /\ job.artifact \in disk
    /\ jobsRun = 2
    /\ METRICS.files_failed_total = 1

\* the strategies a call attempted, in the order of its attempts
Tried(j) == SubSeq(Chain(j.useTpl, installed), 1, j.nAttempts)

\* the place of a strategy in the fixed order: with the template xelatex,
\* lualatex, pdflatex (1..3), without it the same three (4..6), DOCX (7)
Rank(s) ==
    IF s.ext = "docx" THEN 7
    ELSE (IF s.tpl THEN 0 ELSE 3)
         + (CHOOSE i \in 1..3 : <<"xelatex", "lualatex", "pdflatex">>[i] = s.engine)

\* a strategy the call may attempt: a PDF engine that is installed, with the
\* template only when the template is a file, or the DOCX fallback
Eligible(j) ==
    {[engine |-> e, tpl |-> t, ext |-> "pdf"] :
        e \in installed, t \in (IF j.useTpl THEN BOOLEAN ELSE {FALSE})}
    \cup {[engine |-> "docx_fallback", tpl |-> FALSE, ext |-> "docx"]}

\* C24: the attempts of a call follow the fixed order (template with
\* xelatex, lualatex, pdflatex, then the same engines without template, then
\* DOCX), each strategy at most once, none of an engine that is not
\* installed, none with a template that is no file, none left out before the
\* last one attempted, none after the one that succeeded, and a call that
\* ends FAIL after its preflight attempted them all.
C24_StrictSequence ==
    (pc = "done")
        => LET tr == Tried(job)
           IN  /\ \A i \in 1..Len(tr) : tr[i] \in Eligible(job)
               /\ \A i \in 1..(Len(tr) - 1) : Rank(tr[i]) < Rank(tr[i + 1])
               /\ \A e \in Eligible(job) :
                     (Len(tr) > 0 /\ Rank(e) < Rank(tr[Len(tr)]))
                        => \E i \in 1..Len(tr) : tr[i] = e
               /\ (job.won # NoStrategy) => (Len(tr) > 0 /\ job.won = tr[Len(tr)])
               /\ (job.status = "FAIL" /\ job.preflight = "none")
                     => (Len(tr) = Cardinality(Eligible(job)) /\ tr[Len(tr)].ext = "docx")
               /\ (job.preflight # "none" \/ job.status = "SKIP") => (tr = <<>>)

\* with a template and every engine installed the six PDF attempts failed
\* and the DOCX fallback, the seventh, succeeded
C24_Witness ==
    /\ pc = "done"
    /\ job.useTpl
    /\ installed = Engines
    /\ job.nAttempts = 7
    /\ job.status = "DEGRADED"
    /\ job.won.ext = "docx"

\* the call ended at an attempt whose process exited 0 and whose artifact
\* was not there to be opened
ExitZeroNoArtifact(j) == j.raised /\ j.timedOut # j.nAttempts

\* the chain of the call runs to its end
ChainEnds == pc = "chain" /\ pc' = "done"

\* C25 as stated: a chain in which no attempt both exited 0 and left its
\* artifact records nothing in the cache, and an attempt that exited 0
\* without its artifact does not end the call.
C25_SuccessNeedsArtifact ==
    [][(ChainEnds /\ job'.won = NoStrategy)
         => /\ cache' = cache
            /\ ~ExitZeroNoArtifact(job')]_vars

\* a convert_one call comes to its end, by a return or an exception
CallEnds == pc # "done" /\ pc' = "done"

\* C26 as stated: a call that returns OK or DEGRADED leaves the cache mapping
\* its key to the returned artifact; a call that returns FAIL or SKIP leaves
\* the cache as it was; and the cache is written only by a call one of whose
\* strategies succeeded, its process exiting 0 with the artifact on disk.
C26_CacheFollowsSuccess ==
    [][CallEnds
         => /\ (job'.status \in {"OK", "DEGRADED"})
                  => (already_done(cache', job'.key) = job'.artifact)
            /\ (job'.status \in {"FAIL", "SKIP"}) => (cache' = cache)
            /\ (cache' # cache) => (job'.won # NoStrategy)]_vars

C29_UnhashedNeverSkips ==
    (pc = "done" /\ job.preflight # "dirs" /\ job.key.md.kind = "error")
        => job.status # "SKIP"

\* ---- main ---------------------------------------------------------------------
SetupFailures == {"conflict", "pandoc", "dirs", "template"}

\* C11 as stated: a setup failure main detects before any file is processed
\* (conflicting modes, pandoc missing, directories unusable, template
\* rejected) ends the process with exit status 1, never with 2.
C11_SetupExitOne ==
    (mpc = "exited" /\ mainWhy \in SetupFailures)
        => (mainExit = 1 /\ cycles = 0)

\* the daemon got as far as its PID file
DaemonStartup == args.daemon /\ mpc \notin {"start", "pidfile"} /\ mainWhy \notin SetupFailures

\* C12 as stated: when the PID file names a live process, whatever the probe
\* of it answers, the daemon start ends with exit status 3, the file as it
\* was and no batch cycle run.
C12_DoubleStartGuard ==
    (DaemonStartup /\ host.pidfile \in {"alive", "alive_eperm"})
        => /\ mpc = "exited"
           /\ mainExit = 3
           /\ marker = host.pidfile
           /\ cycles = 0

\* C13: a PID file that names a process that is gone, or holds text int()
\* rejects, does not stop the start: pid_file_manager leaves the id of the
\* current process in it and the daemon start goes on.
C13_StaleMarker ==
    (DaemonStartup /\ host.pidfile \in {"dead", "garbage"})
        => /\ marker = "self"
           /\ mainWhy \notin {"running", "pid_error"}

\* a daemon that found an unparsable PID file runs its watch loop
C13_Witness ==
    /\ mpc = "cycle"
    /\ args.daemon
    /\ host.pidfile \in {"dead", "garbage"}
    /\ marker = "self"

\* C18 as stated: a template that fails validation never keeps the strategy
\* chain from being attempted: main does not stop because of its template.
C18_TemplateNoGate ==
    (mpc = "exited" /\ host.tpl = "invalid") => mainWhy # "template"

\* C18: at startup the syntax check of the template is a gate that --force
\* opens: with a rejected template and a setup otherwise sound, main without
\* --force ends with exit status 2 before any batch cycle, and main with
\* --force goes on to its mode with that template.
C18_TemplateGateUnlessForce ==
    (mpc # "start" /\ host.tpl = "invalid" /\ mainWhy \notin {"conflict", "pandoc", "dirs"})
        => IF args.force
           THEN mainWhy # "template" /\ template_file
           ELSE mpc = "exited" /\ mainWhy = "template" /\ mainExit = 2 /\ cycles = 0

\* a forced batch run with a rejected template ran its cycle
C18_Witness ==
    /\ mpc = "exited"
    /\ host.tpl = "invalid"
    /\ args.force
    /\ mainWhy = "batch"
    /\ cycles = 1

\* C19: once the flag is set while watch is in its sleep loop, whatever the
\* interval (negative, zero, positive), no further one-second sleep is
\* started: the sleep under way ends, the next look at the flag leaves the
\* loop, watch returns, and no batch cycle is started.
C19_SleepInterruptible ==
    [][(SHUTDOWN_EVENT /\ mpc \in {"sleep", "for", "while"})
         => /\ cycles' = cycles
            /\ (mpc = "sleep") => (mpc' \in {"sleep", "for"})
            /\ (mpc = "for") => (mpc' \in {"for", "while"})
            /\ (mpc = "while") => (mpc' \in {"while", "exited"})
            /\ (mpc' = "exited") => (mainExit' = 0 /\ mainWhy' = "shutdown")]_vars

\* the flag was set during the one-second sleep of a watch whose interval is
\* not positive
C19_Witness ==
    /\ SHUTDOWN_EVENT
    /\ mpc = "sleep"
    /\ args.sleep <= 0
    /\ cycles = 1

\* C20 as stated: once the flag is set during a batch cycle, no call that
\* has not started is started.
C20_NoStartAfterShutdown ==
    [][SHUTDOWN_EVENT
         => \A i \in 1..files : (fut[i] = "queued") => (fut'[i] = "queued")]_vars

\* ---- enhanced_main.py -------------------------------------------------------------
\* C16 as stated: a body that fails on its first k-1 executions and would
\* succeed on the k-th, k <= max_attempts, is executed k times and the
\* operation completes.
C16_RetryCompletes ==
    (epc = "done" /\ ecall = "retry" /\ einput.succeedsAt \in 1..einput.max_attempts)
        => (eres = "completed" /\ runs = einput.succeedsAt)

\* C17 as stated: a renderer process that times out is followed by the
\* attempt of the next strategy.
C17_TimeoutFallsThrough ==
    (epc = "done" /\ ecall = "perform" /\ Len(procs) >= 1 /\ einput.primary = "timeout")
        => Len(procs) >= 2

\* C28 as stated: when the primary process and both fallback processes end
\* with an exit status other than 0, _perform_conversion returns FAIL, and
\* whatever it returns is a triple with status OK, DEGRADED or FAIL.
C28_ExhaustedYieldsFail ==
    (epc = "done" /\ ecall = "perform" /\ Len(procs) >= 1)
        => /\ eres \in {"OK", "DEGRADED", "FAIL"}
           /\ (einput.primary = "nonzero" /\ einput.docx = "nonzero"
                 /\ einput.html = "nonzero") => (eres = "FAIL")

\* ---- AgentMetrics ------------------------------------------------------------------
\* C22 as stated: what is read from the dict get_metrics returned stays what
\* it was when the dict was returned, whatever update of the metrics follows.
C22_SnapshotFrozen ==
    (snapshot # NoSnapshot) => (Value(snapshot, heap) = seen)

\* ---- GET /health -------------------------------------------------------------------
\* C23 as stated: a response of either server that says 'healthy' was given
\* on a host where the disk space, binary, network and writability checks
\* all pass.
C23_HealthyOnlyIfAllPass ==
    (hresp.status = "healthy")
        => /\ check_disk_space(probes)
           /\ check_dependencies(probes)
           /\ check_network(probes)
           /\ check_permissions(probes)

\* ---- dependency_report ---------------------------------------------------------------
\* a class or package the template declares and kpsewhich, answering, does
\* not find; a bibliography tool the template needs that is not installed
KnownMissing(r, h) ==
    (IF r.class_name # "none" /\ h.kpsewhich = "works" /\ Cls(r.class_name) \notin h.texmf
     THEN {"class"} ELSE {})
    \cup {p \in r.pkgs : h.kpsewhich = "works" /\ Sty(p) \notin h.texmf}
    \cup (IF "biblatex" \in r.pkgs /\ ~h.biber THEN {"biber"} ELSE {})
    \cup (IF r.uses_bibtex_style /\ ~h.bibtex THEN {"bibtex"} ELSE {})

\* C30 as stated: on a template whose syntax is valid, dependency_report
\* returns ok = False exactly when a declared class, package or bibliography
\* tool is known to be missing; what kpsewhich or fc-list could not tell,
\* and fonts that are missing, never make it False.
C30_BlockingIffKnownMissing ==
    (report # NoReport /\ requires.syntax)
        => (~report.ok <=> KnownMissing(requires, texlive) # {})

\* ---- validate_template_syntax ------------------------------------------------------
\* the four conditions: the file is read, its counts of "{" and "}" are
\* equal, it holds \documentclass, \begin{document} and \end{document}
FourConditions(f) ==
    /\ f.kind = "text"
    /\ CountOpens(f.content) = CountCloses(f.content)
    /\ Contains(f.content, "\\documentclass")
    /\ Contains(f.content, "\\begin{document}")
    /\ Contains(f.content, "\\end{document}")

\* C31 as stated: validate_template_syntax returns ok = True exactly when
\* the four conditions hold, and a reason with every ok = False.
C31_OkIffFourConditions ==
    (verdict # NoVerdict)
        => /\ verdict.ok <=> FourConditions(tex_path)
           /\ ~verdict.ok => verdict.reason \notin {"none", "passed"}

\* C31: validate_template_syntax returns ok = True exactly when the four
\* conditions hold and no \usepackage{ is left without a "}" after it; in
\* every other case it returns ok = False with a reason, 'not found' for a
\* path that names no file.
C31_OkIffFiveConditions ==
    (verdict # NoVerdict)
        => /\ verdict.ok <=> (FourConditions(tex_path)
                                /\ ~MalformedUsepackage(tex_path.content))
           /\ ~verdict.ok => verdict.reason \notin {"none", "passed"}
           /\ (tex_path.kind = "absent") => (verdict.reason = "not found")

\* a text that meets the four conditions was rejected for its \usepackage{
C31_Witness ==
    /\ verdict # NoVerdict
    /\ FourConditions(tex_path)
    /\ verdict.issues = {"usepackage"}

\* ---- _select_pdf_engine ---------------------------------------------------------
\* the source holds characters above 127, or the template uses fontspec
NeedsRichEngine(in) == in.source \in {"utf8", "latin1"} \/ in.template = "fontspec"

\* C32 as stated: _select_pdf_engine returns the first installed engine of
\* xelatex, lualatex, pdflatex when the source holds non-ASCII characters or
\* the template uses fontspec, of pdflatex, xelatex, lualatex otherwise, None
\* only when no engine is installed; and convert_one starts with the same
\* engine for the same input.
C32_SameCapabilityOrder ==
    (selected # NoSelection)
        => /\ selected.enhanced =
                 FirstInstalled(IF NeedsRichEngine(selInput)
                                THEN <<"xelatex", "lualatex", "pdflatex">>
                                ELSE <<"pdflatex", "xelatex", "lualatex">>,
                                selInput.which)
           /\ (selected.enhanced = "None") <=> (selInput.which = {})
           /\ selected.convert_one = selected.enhanced

\* ---- AgentMetrics under concurrent threads -------------------------------------------
\* C33: when no thread is inside an update, every counter equals its initial
\* value 0 plus the sum of the amounts of all updates made, whatever the
\* interleaving of the threads: no update is lost.
C33_NoLostUpdate ==
    (\A t \in Threads : thr[t].at = "idle")
        => \A c \in Cells : cells[c] = 0 + applied[c]

\* two threads have each updated the same counter twice
C33_Witness ==
    /\ \A t \in Threads : thr[t].at = "idle" /\ thr[t].calls = MaxCalls
    /\ cells["engine_usage.xelatex"] = 2 * MaxThreads

\* ---- pid_file_manager in two processes -------------------------------------------------
\* C34: of two daemons started at the same time with the same PID file, at
\* most one passes pid_file_manager.
C34_AtMostOnePasses ==
    ~(\A d \in Daemons : dproc[d].at = "passed")

\* ---- already_done and mark_done under concurrent threads --------------------------------
\* C35: whatever the interleaving of mark_done and skip checks, a skip check
\* returns a miss or a path mark_done has written for exactly that key and
\* that is a file on disk, and a record for one key leaves the entry of every
\* other key as it was.
C35_CacheSafeUnderThreads ==
    /\ [](\A t \in Threads :
            caller[t].prior \notin {Miss, NoCaller.prior}
                => /\ <<caller[t].key, caller[t].prior>> \in recorded
                   /\ caller[t].prior \in artifacts)
    /\ [][\A k \in JobKeys :
            done_files'[k] # done_files[k]
                => \E t \in Threads : caller'[t].key = k /\ caller'[t] # caller[t]]_vars

\* ---- convert_one and convert_file in concurrent threads -----------------------------------
\* the calls of fn that have raised active_jobs and not yet left
InFlight(fn) ==
    {c \in Threads : active[c].fn = fn /\ active[c].at \in {"entered", "chain", "finally"}}

\* two calls that are both under way
Concurrent(c, d) ==
    /\ c # d
    /\ active[c].at \notin {"none", "returned"}
    /\ active[d].at \notin {"none", "returned"}

\* C36: of two unforced convert_one calls with the same job key that are under
\* way at the same time, at most one runs the strategy chain.
C36_OneChainPerKey ==
    \A c, d \in Threads :
        ( /\ Concurrent(c, d)
          /\ active[c].fn = "convert_one" /\ active[d].fn = "convert_one"
          /\ ~active[c].force /\ ~active[d].force
          /\ active[c].key # 0 /\ active[c].key = active[d].key )
            => ~(active[c].ranChain /\ active[d].ranChain)

\* C37: in every state active_jobs equals the number of convert_one calls
\* (for enhanced_main.py: of convert_file calls) under way; it is never
\* negative, and once every call is over, with whatever outcome, it is back
\* at the value it had before them.
C37_GaugeCountsInFlight ==
    /\ METRICS.active_jobs = Cardinality(InFlight("convert_one"))
    /\ emetrics.active_jobs = Cardinality(InFlight("convert_file"))
    /\ METRICS.active_jobs >= 0
    /\ emetrics.active_jobs >= 0
    /\ (\A c \in Threads : active[c].at \in {"none", "returned"})
          => METRICS.active_jobs = InitMetrics.active_jobs
             /\ emetrics.active_jobs = InitEMetrics.active_jobs

\* a call has returned FAIL before the chain, another has ended with an
\* exception, and the gauge is back at 0
C37_Witness ==
    /\ \E c \in Threads :
          active[c].at = "returned" /\ active[c].status = "FAIL" /\ ~active[c].ranChain
    /\ \E d \in Threads : active[d].at = "returned" /\ active[d].status = "RAISED"
    /\ METRICS.active_jobs = 0

\* C39: two different input files never get the same log path or the same
\* artifact path from convert_one, also when their jobs run in the same second.
C39_DistinctPaths ==
    \A c, d \in Threads :
        ( /\ c # d
          /\ active[c].fn = "convert_one" /\ active[d].fn = "convert_one"
          /\ active[c].md # active[d].md )
            => /\ (active[c].logf # NoLogFile /\ active[d].logf # NoLogFile)
                     => active[c].logf # active[d].logf
               /\ ( /\ active[c].ranChain /\ active[c].artifact # NoArtifact
                    /\ active[d].ranChain /\ active[d].artifact # NoArtifact )
                     => active[c].artifact # active[d].artifact

\* C38: every job that is over has raised exactly the outcome counter of the
\* status it returned: each counter equals the number of finished calls that
\* returned its status, for convert_one and for convert_file.
C38_CountersMatchStatuses ==
    LET Over(fn, st) ==
            {c \in Threads : /\ active[c].fn = fn
                             /\ active[c].at \in {"finally", "returned"}
                             /\ active[c].status = st}
    IN  /\ METRICS.files_processed_total = Cardinality(Over("convert_one", "OK"))
        /\ METRICS.files_degraded_total = Cardinality(Over("convert_one", "DEGRADED"))
        /\ METRICS.files_skipped_total = Cardinality(Over("convert_one", "SKIP"))
        /\ METRICS.files_failed_total = Cardinality(Over("convert_one", "FAIL"))
        /\ emetrics.files_processed_total = Cardinality(Over("convert_file", "OK"))
        /\ emetrics.files_failed_total = Cardinality(Over("convert_file", "FAIL"))

====
